---- MODULE Spec2Model ----
(***************************************************************************)
(* Excel Smart Parser -> CSV generator (ExcelSmartParserPage).             *)
(*                                                                         *)
(* Encoding of JavaScript values:                                          *)
(*   - a string is a sequence of one-character TLA+ strings, "" is << >>; *)
(*   - a number n stored in a record is Num(n) = << "#" >> \o its digits   *)
(*     ("#" is not a character of any modelled string);                    *)
(*   - null for an index is NoIdx = -1 (indices are never negative);       *)
(*   - null for a parsed range is NullRange (all coordinates -1);          *)
(*   - a Record<string, any> is a function from keys (strings) to values;  *)
(*   - grid[r][c] (0-based) is grid[r + 1][c + 1].                         *)
(***************************************************************************)
EXTENDS Integers, Sequences, FiniteSets, TLC

VARIABLES
    grid,               \* useState<Grid>
    rolesColumns,       \* useState<RolesColumnSpec[]>
    requiredRoleHeader, \* useState<string>
    rolesFilters,       \* useState<FilterCondition[]>
    rolesCsv,           \* useState<string>
    rolesWarnings,      \* useState<string[]>
    rolesDupCsv,        \* useState<string>
    rolesRun,           \* locals of the last generateRecordsCsv run
    assignAHeader,
    assignBHeader,
    assignObjARange,
    assignObjBRange,
    assignMatrixRange,
    assignMarkValues,
    assignExtraColumns,
    assignFilters,
    assignCsv,
    assignWarnings,
    assignDupCsv,
    assignRun,          \* locals of the last generateAssignmentsCsv run
    call,               \* a direct call of a helper: its arguments and result
    step,               \* useState<Step>
    compareSummary,     \* useState<string>
    compareReportTxt,   \* useState<string>
    workbook,           \* useState<XLSX.WorkBook | null>
    sheetName,          \* useState<string>
    mode,               \* useState<Mode>
    templateSheetToLoadRef, \* useRef<string>
    readers,            \* FileReader loads in flight, each with what its onload closes over
    alerted,            \* the message of the last alert()
    items,              \* UploadPage: useState<Item[]>
    submitting,         \* UploadPage: useState(false)
    schemaText,         \* UploadPage: useState<string>
    schema,             \* UploadPage: useState<Schema | null>
    parseError,         \* UploadPage: useState<string | null>
    selectedEntity,     \* UploadPage: useState(0)
    submit              \* the submitAll invocation in flight: its position and what it closes over

vars == << grid, rolesColumns, requiredRoleHeader, rolesFilters, rolesCsv,
           rolesWarnings, rolesDupCsv, rolesRun, assignAHeader, assignBHeader,
           assignObjARange, assignObjBRange, assignMatrixRange, assignMarkValues,
           assignExtraColumns, assignFilters, assignCsv, assignWarnings,
           assignDupCsv, assignRun, call, step, compareSummary, compareReportTxt,
           workbook, sheetName, mode, templateSheetToLoadRef, readers, alerted,
           items, submitting, schemaText, schema, parseError, selectedEntity, submit >>

rolesVars == << rolesColumns, requiredRoleHeader, rolesFilters, rolesCsv,
                rolesWarnings, rolesDupCsv, rolesRun >>

assignVars == << assignAHeader, assignBHeader, assignObjARange, assignObjBRange,
                 assignMatrixRange, assignMarkValues, assignExtraColumns,
                 assignFilters, assignCsv, assignWarnings, assignDupCsv, assignRun >>

pageVars == << step, compareSummary, compareReportTxt, workbook, sheetName, mode,
              templateSheetToLoadRef, readers, alerted >>

uploadVars == << items, submitting, schemaText, schema, parseError, selectedEntity, submit >>

restVars == << pageVars, uploadVars >>

---------------------------------------------------------------------------
(* Strings *)

Min(a, b) == IF a <= b THEN a ELSE b
Max(a, b) == IF a >= b THEN a ELSE b

UpperLetters ==
    << "A", "B", "C", "D", "E", "F", "G", "H", "I", "J", "K", "L", "M",
       "N", "O", "P", "Q", "R", "S", "T", "U", "V", "W", "X", "Y", "Z" >>

LowerLetters ==
    << "a", "b", "c", "d", "e", "f", "g", "h", "i", "j", "k", "l", "m",
       "n", "o", "p", "q", "r", "s", "t", "u", "v", "w", "x", "y", "z" >>

Digits == << "0", "1", "2", "3", "4", "5", "6", "7", "8", "9" >>

Range(f) == { f[i] : i \in DOMAIN f }

IndexOf(seq, ch) == CHOOSE i \in DOMAIN seq : seq[i] = ch

IsUpper(ch) == ch \in Range(UpperLetters)
IsLower(ch) == ch \in Range(LowerLetters)
IsDigit(ch) == ch \in Range(Digits)
IsSpace(ch) == ch \in { " ", "\t", "\n", "\r" }

LowerChar(ch) == IF IsUpper(ch) THEN LowerLetters[IndexOf(UpperLetters, ch)] ELSE ch
UpperChar(ch) == IF IsLower(ch) THEN UpperLetters[IndexOf(LowerLetters, ch)] ELSE ch

toLowerCase(s) == [i \in DOMAIN s |-> LowerChar(s[i])]
toUpperCase(s) == [i \in DOMAIN s |-> UpperChar(s[i])]

RECURSIVE trimStart(_)
trimStart(s) == IF s # << >> /\ IsSpace(Head(s)) THEN trimStart(Tail(s)) ELSE s

RECURSIVE trimEnd(_)
trimEnd(s) ==
    IF s # << >> /\ IsSpace(s[Len(s)]) THEN trimEnd(SubSeq(s, 1, Len(s) - 1)) ELSE s

trim(s) == trimEnd(trimStart(s))

includes(s, t) ==
    \E i \in 0 .. (Len(s) - Len(t)) : SubSeq(s, i + 1, i + Len(t)) = t

RECURSIVE join(_, _)
join(parts, sep) ==
    IF parts = << >> THEN << >>
    ELSE IF Len(parts) = 1 THEN parts[1]
    ELSE parts[1] \o sep \o join(Tail(parts), sep)

RECURSIVE split(_, _)
split(s, sep) ==
    IF \E i \in DOMAIN s : s[i] = sep
    THEN LET i == CHOOSE k \in DOMAIN s : s[k] = sep /\ \A m \in 1 .. (k - 1) : s[m] # sep
         IN  << SubSeq(s, 1, i - 1) >> \o split(SubSeq(s, i + 1, Len(s)), sep)
    ELSE << s >>

filterBoolean(seq) == SelectSeq(seq, LAMBDA x : x # << >>)

RECURSIVE flat(_)
flat(block) == IF block = << >> THEN << >> ELSE Head(block) \o flat(Tail(block))

RECURSIVE digitsOf(_)
digitsOf(n) ==
    IF n < 10 THEN << Digits[n + 1] >> ELSE digitsOf(n \div 10) \o << Digits[(n % 10) + 1] >>

(* JavaScript values held in a record *)
Num(n) == << "#" >> \o digitsOf(n)
IsNum(v) == Len(v) >= 2 /\ v[1] = "#"
toString(v) == IF IsNum(v) THEN Tail(v) ELSE v
NoIdx == -1

---------------------------------------------------------------------------
(* Coordinate model *)

clamp(n, lo, hi) == Max(lo, Min(hi, n))

RECURSIVE lettersToColFrom(_, _)
lettersToColFrom(up, n) ==
    IF up = << >> THEN n
    ELSE lettersToColFrom(Tail(up), n * 26 + IndexOf(UpperLetters, Head(up)))

lettersToCol(letters) == lettersToColFrom(toUpperCase(letters), 0) - 1

RECURSIVE parseIntFrom(_, _)
parseIntFrom(ds, n) ==
    IF ds = << >> THEN n
    ELSE parseIntFrom(Tail(ds), n * 10 + (IndexOf(Digits, Head(ds)) - 1))

parseInt(ds) == parseIntFrom(ds, 0)

numOf(v) == parseInt(Tail(v))

NullCell == [r |-> -1, c |-> -1]
NullRange == [r0 |-> -1, c0 |-> -1, r1 |-> -1, c1 |-> -1]

\* s.match(/^([A-Z]+)(\d+)$/): k is the length of the leading run of letters.
parseCell(s) ==
    LET ks == { k \in 0 .. Len(s) : \A i \in 1 .. k : IsUpper(s[i]) }
        k  == CHOOSE m \in ks : \A n \in ks : n <= m
        ds == SubSeq(s, k + 1, Len(s))
    IN  IF k >= 1 /\ Len(ds) >= 1 /\ (\A i \in DOMAIN ds : IsDigit(ds[i]))
        THEN LET c == lettersToCol(SubSeq(s, 1, k))
                 r == parseInt(ds) - 1
             IN  IF r < 0 \/ c < 0 THEN NullCell ELSE [r |-> r, c |-> c]
        ELSE NullCell

parseA1Range(a1) ==
    LET cleaned == toUpperCase(trim(a1))
    IN  IF cleaned = << >> THEN NullRange
        ELSE LET parts == split(cleaned, ":")
                 a     == parseCell(parts[1])
             IN  IF a = NullCell THEN NullRange
                 ELSE IF Len(parts) = 1 THEN [r0 |-> a.r, c0 |-> a.c, r1 |-> a.r, c1 |-> a.c]
                 ELSE LET b == parseCell(parts[2])
                      IN  IF b = NullCell THEN NullRange
                          ELSE [r0 |-> a.r, c0 |-> a.c, r1 |-> b.r, c1 |-> b.c]

gridRows(g) == Len(g)
gridCols(g) == IF Len(g) >= 1 THEN Len(g[1]) ELSE 0

\* (grid[r]?.[c] ?? "").toString()
Cell(g, r, c) ==
    IF r + 1 \in DOMAIN g /\ c + 1 \in DOMAIN g[r + 1] THEN g[r + 1][c + 1] ELSE << >>

\* normalizeRange clamping the corners as given, without ordering them first.
normalizeRangeAsGiven(rng, g) ==
    [r0 |-> clamp(rng.r0, 0, Max(0, gridRows(g) - 1)),
     r1 |-> clamp(rng.r1, 0, Max(0, gridRows(g) - 1)),
     c0 |-> clamp(rng.c0, 0, Max(0, gridCols(g) - 1)),
     c1 |-> clamp(rng.c1, 0, Max(0, gridCols(g) - 1))]

normalizeRange(rng, g) ==
    LET rows == gridRows(g)
        cols == gridCols(g)
    IN  [r0 |-> clamp(Min(rng.r0, rng.r1), 0, Max(0, rows - 1)),
         r1 |-> clamp(Max(rng.r0, rng.r1), 0, Max(0, rows - 1)),
         c0 |-> clamp(Min(rng.c0, rng.c1), 0, Max(0, cols - 1)),
         c1 |-> clamp(Max(rng.c0, rng.c1), 0, Max(0, cols - 1))]

getRange2D(g, rng) ==
    LET n == normalizeRange(rng, g)
    IN  [i \in 1 .. (n.r1 - n.r0 + 1) |->
            [j \in 1 .. (n.c1 - n.c0 + 1) |-> Cell(g, n.r0 + i - 1, n.c0 + j - 1)]]

getRangeVector(g, rng) ==
    LET n     == normalizeRange(rng, g)
        h     == n.r1 - n.r0 + 1
        w     == n.c1 - n.c0 + 1
        block == getRange2D(g, n)
    IN  IF w = 1 THEN [i \in DOMAIN block |-> block[i][1]]
        ELSE IF h = 1 THEN block[1]
        ELSE flat(block)

---------------------------------------------------------------------------
(* Records keying: row or column *)

rowKey(r) == << "r", ":" >> \o digitsOf(r)
colKey(c) == << "c", ":" >> \o digitsOf(c)

NullKey == [kind |-> "none", idx |-> -1]

\* k.match(/^([rc]):(\d+)$/)
parseRoleKey(k) ==
    IF /\ Len(k) >= 3
       /\ k[1] \in { "r", "c" }
       /\ k[2] = ":"
       /\ \A i \in 3 .. Len(k) : IsDigit(k[i])
    THEN [kind |-> IF k[1] = "r" THEN "row" ELSE "col", idx |-> parseInt(SubSeq(k, 3, Len(k)))]
    ELSE NullKey

\* The three shapes of getRolesMap; map is a function from RoleKey to string.
rolesMapSingleColumn(g, n) ==
    [map     |-> [k \in { rowKey(r) : r \in n.r0 .. n.r1 } |->
                    trim(Cell(g, parseRoleKey(k).idx, n.c0))],
     warning |-> << >>,
     keyKind |-> "row"]

rolesMapSingleRow(g, n) ==
    [map     |-> [k \in { colKey(c) : c \in n.c0 .. n.c1 } |->
                    trim(Cell(g, n.r0, parseRoleKey(k).idx))],
     warning |-> << >>,
     keyKind |-> "col"]

rolesMapBlock(g, n) ==
    [map     |-> [k \in { rowKey(r) : r \in n.r0 .. n.r1 } |->
                    LET r     == parseRoleKey(k).idx
                        parts == filterBoolean([j \in 1 .. (n.c1 - n.c0 + 1) |->
                                                   trim(Cell(g, r, n.c0 + j - 1))])
                    IN  join(parts, << " " >>)],
     warning |-> << "Range is a block; values are joined per row." >>,
     keyKind |-> "row"]

\* getRolesMap testing the height before the width.
getRolesMapHeightFirst(g, rng) ==
    LET n == normalizeRange(rng, g)
        h == n.r1 - n.r0 + 1
        w == n.c1 - n.c0 + 1
    IN  IF h = 1 THEN rolesMapSingleRow(g, n)
        ELSE IF w = 1 THEN rolesMapSingleColumn(g, n)
        ELSE rolesMapBlock(g, n)

getRolesMap(g, rng) ==
    LET n == normalizeRange(rng, g)
        h == n.r1 - n.r0 + 1
        w == n.c1 - n.c0 + 1
    IN  IF w = 1 THEN rolesMapSingleColumn(g, n)
        ELSE IF h = 1 THEN rolesMapSingleRow(g, n)
        ELSE rolesMapBlock(g, n)

---------------------------------------------------------------------------
(* CSV and headers *)

\* row[h] ?? ""
Get(row, h) == IF h \in DOMAIN row THEN row[h] ELSE << >>

RECURSIVE doubleQuotes(_)
doubleQuotes(v) ==
    IF v = << >> THEN << >>
    ELSE (IF Head(v) = "\"" THEN << "\"", "\"" >> ELSE << Head(v) >>) \o doubleQuotes(Tail(v))

\* csvEscape that does not quote a value for its line breaks.
csvEscapeSameLine(value) ==
    LET mustQuote == \E i \in DOMAIN value : value[i] \in { "\"", "," }
        escaped   == doubleQuotes(value)
    IN  IF mustQuote THEN << "\"" >> \o escaped \o << "\"" >> ELSE escaped

csvEscape(value) ==
    LET mustQuote == \E i \in DOMAIN value : value[i] \in { "\"", ",", "\n", "\r" }
        escaped   == doubleQuotes(value)
    IN  IF mustQuote THEN << "\"" >> \o escaped \o << "\"" >> ELSE escaped

csvLine(headers, row) ==
    join([i \in DOMAIN headers |-> csvEscape(toString(Get(row, headers[i])))], << "," >>)

toCsv(headers, rows) ==
    LET lines == << join([i \in DOMAIN headers |-> csvEscape(headers[i])], << "," >>) >>
                 \o [i \in DOMAIN rows |-> csvLine(headers, rows[i])]
    IN  join(lines, << "\n" >>)

\* text.replace(/\r\n/g, "\n").replace(/\r/g, "\n")
trimAllCells(seq) == [i \in DOMAIN seq |-> trim(seq[i])]

RECURSIVE normalizeNewlines(_)
normalizeNewlines(s) ==
    IF s = << >> THEN << >>
    ELSE IF Head(s) = "\r"
         THEN (IF Len(s) >= 2 /\ s[2] = "\n" THEN << "\n" >> \o normalizeNewlines(Tail(Tail(s)))
               ELSE << "\n" >> \o normalizeNewlines(Tail(s)))
    ELSE << Head(s) >> \o normalizeNewlines(Tail(s))

ScanCsvStart == [rowsRaw |-> << >>, row |-> << >>, cur |-> << >>, inQuotes |-> FALSE]

\* The character loop of parseCsvText from index i (1-based) on.
RECURSIVE scanCsv(_, _, _)
scanCsv(s, i, st) ==
    IF i > Len(s) THEN st
    ELSE IF st.inQuotes
         THEN (IF s[i] = "\""
               THEN (IF i + 1 <= Len(s) /\ s[i + 1] = "\""
                     THEN scanCsv(s, i + 2, [st EXCEPT !.cur = @ \o << "\"" >>])
                     ELSE scanCsv(s, i + 1, [st EXCEPT !.inQuotes = FALSE]))
               ELSE scanCsv(s, i + 1, [st EXCEPT !.cur = @ \o << s[i] >>]))
    ELSE IF s[i] = "\"" THEN scanCsv(s, i + 1, [st EXCEPT !.inQuotes = TRUE])
    ELSE IF s[i] = "," THEN scanCsv(s, i + 1, [st EXCEPT !.row = Append(@, st.cur), !.cur = << >>])
    ELSE IF s[i] = "\n"
         THEN scanCsv(s, i + 1, [st EXCEPT !.rowsRaw = Append(@, Append(st.row, st.cur)),
                                           !.row = << >>, !.cur = << >>])
    ELSE scanCsv(s, i + 1, [st EXCEPT !.cur = @ \o << s[i] >>])

isBlankRow(row) == \A i \in DOMAIN row : trim(row[i]) = << >>

\* while (rowsRaw.length && last row is blank) rowsRaw.pop()
RECURSIVE popBlankRows(_)
popBlankRows(rowsRaw) ==
    IF rowsRaw # << >> /\ isBlankRow(rowsRaw[Len(rowsRaw)])
    THEN popBlankRows(SubSeq(rowsRaw, 1, Len(rowsRaw) - 1))
    ELSE rowsRaw

\* The key of column i (1-based): the header, or Column<i> for a blank one.
csvFieldKey(headers, i) ==
    IF headers[i] = << >> THEN << "C", "o", "l", "u", "m", "n" >> \o digitsOf(i) ELSE headers[i]

\* The record of one data row: a later column with the same key overwrites.
csvRecord(headers, arr) ==
    [k \in { csvFieldKey(headers, i) : i \in DOMAIN headers } |->
        LET last == CHOOSE i \in DOMAIN headers :
                       /\ csvFieldKey(headers, i) = k
                       /\ \A j \in DOMAIN headers : csvFieldKey(headers, j) = k => j <= i
        IN  IF last \in DOMAIN arr THEN arr[last] ELSE << >>]

csvRowsOf(headers, data) == [n \in DOMAIN data |-> csvRecord(headers, data[n])]

csvTable(rowsRaw) ==
    [headers |-> IF rowsRaw = << >> THEN << >> ELSE trimAllCells(rowsRaw[1]),
     rows    |-> csvRowsOf(IF rowsRaw = << >> THEN << >> ELSE trimAllCells(rowsRaw[1]),
                           IF rowsRaw = << >> THEN << >> ELSE Tail(rowsRaw))]

csvScanned(st) == csvTable(popBlankRows(Append(st.rowsRaw, Append(st.row, st.cur))))

parseCsvText(text) == csvScanned(scanCsv(normalizeNewlines(text), 1, ScanCsvStart))

headerBase(h) == IF trim(h) = << >> THEN << "C", "o", "l", "u", "m", "n" >> ELSE trim(h)

\* seen.get(base) + 1 at position i is the number of positions j <= i with the same base.
makeUniqueHeaders(headers) ==
    [i \in DOMAIN headers |->
        LET base == headerBase(headers[i])
            n    == Cardinality({ j \in 1 .. i : headerBase(headers[j]) = base })
        IN  IF n = 1 THEN base ELSE base \o << "_" >> \o digitsOf(n)]

---------------------------------------------------------------------------
(* Filter evaluation *)

\* Collation rank of a character for localeCompare: whitespace, punctuation,
\* digits, then letters in alphabetical order (case decides only ties).
Punctuation == << "_", "-", ",", ";", ":", "!", "?", ".", "'", "\"", "(", ")", "#" >>

primaryRank(ch) ==
    IF IsSpace(ch) THEN 0
    ELSE IF ch \in Range(Punctuation) THEN IndexOf(Punctuation, ch)
    ELSE IF IsDigit(ch) THEN 100 + IndexOf(Digits, ch)
    ELSE IF IsLower(ch) THEN 200 + IndexOf(LowerLetters, ch)
    ELSE IF IsUpper(ch) THEN 200 + IndexOf(UpperLetters, ch)
    ELSE 300

RECURSIVE comparePrimary(_, _)
comparePrimary(a, b) ==
    IF a = << >> /\ b = << >> THEN 0
    ELSE IF a = << >> THEN -1
    ELSE IF b = << >> THEN 1
    ELSE IF primaryRank(Head(a)) < primaryRank(Head(b)) THEN -1
    ELSE IF primaryRank(Head(a)) > primaryRank(Head(b)) THEN 1
    ELSE comparePrimary(Tail(a), Tail(b))

RECURSIVE compareCase(_, _)
compareCase(a, b) ==
    IF a = << >> \/ b = << >> THEN 0
    ELSE IF IsLower(Head(a)) /\ IsUpper(Head(b)) THEN -1
    ELSE IF IsUpper(Head(a)) /\ IsLower(Head(b)) THEN 1
    ELSE compareCase(Tail(a), Tail(b))

localeCompare(a, b) ==
    IF comparePrimary(a, b) # 0 THEN comparePrimary(a, b) ELSE compareCase(a, b)

NoNumber == [ok |-> FALSE, n |-> 0]

removeCommas(t) == SelectSeq(t, LAMBDA ch : ch # ",")

\* Number(normalized) for the modelled strings: "" is 0, an optionally signed run
\* of decimal digits is its value, anything else is NaN.
tryParseNumber(s) ==
    LET t          == trim(s)
        normalized == removeCommas(t)
        signed     == normalized # << >> /\ Head(normalized) \in { "-", "+" }
        digits     == IF signed THEN Tail(normalized) ELSE normalized
    IN  IF t = << >> THEN NoNumber
        ELSE IF normalized = << >> THEN [ok |-> TRUE, n |-> 0]
        ELSE IF digits # << >> /\ (\A i \in DOMAIN digits : IsDigit(digits[i]))
             THEN [ok |-> TRUE,
                   n  |-> IF signed /\ Head(normalized) = "-" THEN 0 - parseInt(digits)
                          ELSE parseInt(digits)]
        ELSE NoNumber

\* Date.parse(t) for the modelled strings: an ISO date YYYY-MM-DD is ordered by
\* (year, month, day); no other modelled string is a date.
tryParseDateMs(s) ==
    LET t == trim(s)
        isIso == /\ Len(t) = 10
                 /\ t[5] = "-" /\ t[8] = "-"
                 /\ \A i \in { 1, 2, 3, 4, 6, 7, 9, 10 } : IsDigit(t[i])
    IN  IF t = << >> \/ ~isIso THEN NoNumber
        ELSE LET y == parseInt(SubSeq(t, 1, 4))
                 m == parseInt(SubSeq(t, 6, 7))
                 d == parseInt(SubSeq(t, 9, 10))
             IN  IF m \in 1 .. 12 /\ d \in 1 .. 31
                 THEN [ok |-> TRUE, n |-> (y * 12 + m) * 31 + d]
                 ELSE NoNumber

NoCompare == 2

\* compareForLtGt without the numeric and the date attempts.
compareForLtGtAsText(aRaw, bRaw) ==
    IF trim(aRaw) = << >> \/ trim(bRaw) = << >> THEN NoCompare
    ELSE localeCompare(trim(aRaw), trim(bRaw))

compareForLtGt(aRaw, bRaw) ==
    LET a  == trim(aRaw)
        b  == trim(bRaw)
        an == tryParseNumber(a)
        bn == tryParseNumber(b)
        ad == tryParseDateMs(a)
        bd == tryParseDateMs(b)
    IN  IF a = << >> \/ b = << >> THEN NoCompare
        ELSE IF an.ok /\ bn.ok THEN (IF an.n = bn.n THEN 0 ELSE IF an.n < bn.n THEN -1 ELSE 1)
        ELSE IF ad.ok /\ bd.ok THEN (IF ad.n = bd.n THEN 0 ELSE IF ad.n < bd.n THEN -1 ELSE 1)
        ELSE localeCompare(a, b)

isNegOp(op) == op = "neq" \/ op = "notLike"

isEmptyValue(s) == trim(s) = << >>

evalOp(left, op, right) ==
    CASE op = "isEmpty"    -> isEmptyValue(left)
      [] op = "isNotEmpty" -> ~isEmptyValue(left)
      [] op = "eq"         -> trim(left) = trim(right)
      [] op = "neq"        -> trim(left) # trim(right)
      [] op = "like"       -> includes(toLowerCase(left), toLowerCase(right))
      [] op = "notLike"    -> ~includes(toLowerCase(left), toLowerCase(right))
      [] op = "lt"         -> compareForLtGt(left, right) # NoCompare /\ compareForLtGt(left, right) < 0
      [] op = "gt"         -> compareForLtGt(left, right) # NoCompare /\ compareForLtGt(left, right) > 0
      [] OTHER             -> FALSE

SheetRowKey == << "_", "_", "s", "h", "e", "e", "t", "R", "o", "w" >>
SheetColKey == << "_", "_", "s", "h", "e", "e", "t", "C", "o", "l" >>

\* typeof record.__sheetRow === "number" ? record.__sheetRow : null
sheetRowOf(record) ==
    IF SheetRowKey \in DOMAIN record /\ IsNum(record[SheetRowKey])
    THEN numOf(record[SheetRowKey]) ELSE NoIdx

sheetColOf(record) ==
    IF SheetColKey \in DOMAIN record /\ IsNum(record[SheetColKey])
    THEN numOf(record[SheetColKey]) ELSE NoIdx

inRange(rng, r, c) == r >= rng.r0 /\ r <= rng.r1 /\ c >= rng.c0 /\ c <= rng.c1

\* The cascade without its single-cell rule: a single cell falls through to the
\* partial-axis rules and the flattened fallback.
autoCascadeNoSingleCell(rowIdx, colIdx, rng, g) ==
    LET isSingleCol  == rng.c0 = rng.c1
        isSingleRow  == rng.r0 = rng.r1
    IN  IF rowIdx # NoIdx /\ colIdx # NoIdx /\ inRange(rng, rowIdx, colIdx)
        THEN << Cell(g, rowIdx, colIdx) >>
        ELSE IF isSingleCol /\ rowIdx # NoIdx /\ rowIdx >= rng.r0 /\ rowIdx <= rng.r1
             THEN << Cell(g, rowIdx, rng.c0) >>
        ELSE IF isSingleRow /\ colIdx # NoIdx /\ colIdx >= rng.c0 /\ colIdx <= rng.c1
             THEN << Cell(g, rng.r0, colIdx) >>
        ELSE IF rowIdx # NoIdx /\ rowIdx >= rng.r0 /\ rowIdx <= rng.r1
             THEN [j \in 1 .. (rng.c1 - rng.c0 + 1) |-> Cell(g, rowIdx, rng.c0 + j - 1)]
        ELSE IF colIdx # NoIdx /\ colIdx >= rng.c0 /\ colIdx <= rng.c1
             THEN [i \in 1 .. (rng.r1 - rng.r0 + 1) |-> Cell(g, rng.r0 + i - 1, colIdx)]
        ELSE flat(getRange2D(g, rng))

\* The cascade with the row slice tested before the exact cell.
autoCascadeSliceFirst(rowIdx, colIdx, rng, g) ==
    LET isSingleCol  == rng.c0 = rng.c1
        isSingleRow  == rng.r0 = rng.r1
        isSingleCell == isSingleRow /\ isSingleCol
    IN  IF isSingleCell
        THEN (IF rowIdx # NoIdx /\ colIdx # NoIdx /\ inRange(rng, rowIdx, colIdx)
              THEN << Cell(g, rowIdx, colIdx) >>
              ELSE << >>)
        ELSE IF rowIdx # NoIdx /\ rowIdx >= rng.r0 /\ rowIdx <= rng.r1
             THEN [j \in 1 .. (rng.c1 - rng.c0 + 1) |-> Cell(g, rowIdx, rng.c0 + j - 1)]
        ELSE IF colIdx # NoIdx /\ colIdx >= rng.c0 /\ colIdx <= rng.c1
             THEN [i \in 1 .. (rng.r1 - rng.r0 + 1) |-> Cell(g, rng.r0 + i - 1, colIdx)]
        ELSE flat(getRange2D(g, rng))

\* The cascade of sheetValuesAuto once the range is parsed and normalized.
autoCascade(rowIdx, colIdx, rng, g) ==
    LET isSingleCol  == rng.c0 = rng.c1
        isSingleRow  == rng.r0 = rng.r1
        isSingleCell == isSingleRow /\ isSingleCol
    IN  IF isSingleCell
        THEN (IF rowIdx # NoIdx /\ colIdx # NoIdx /\ inRange(rng, rowIdx, colIdx)
              THEN << Cell(g, rowIdx, colIdx) >>
              ELSE << >>)
        ELSE IF rowIdx # NoIdx /\ colIdx # NoIdx /\ inRange(rng, rowIdx, colIdx)
             THEN << Cell(g, rowIdx, colIdx) >>
        ELSE IF isSingleCol /\ rowIdx # NoIdx /\ rowIdx >= rng.r0 /\ rowIdx <= rng.r1
             THEN << Cell(g, rowIdx, rng.c0) >>
        ELSE IF isSingleRow /\ colIdx # NoIdx /\ colIdx >= rng.c0 /\ colIdx <= rng.c1
             THEN << Cell(g, rng.r0, colIdx) >>
        ELSE IF rowIdx # NoIdx /\ rowIdx >= rng.r0 /\ rowIdx <= rng.r1
             THEN [j \in 1 .. (rng.c1 - rng.c0 + 1) |-> Cell(g, rowIdx, rng.c0 + j - 1)]
        ELSE IF colIdx # NoIdx /\ colIdx >= rng.c0 /\ colIdx <= rng.c1
             THEN [i \in 1 .. (rng.r1 - rng.r0 + 1) |-> Cell(g, rng.r0 + i - 1, colIdx)]
        ELSE flat(getRange2D(g, rng))

sheetValuesAuto(record, f, g) ==
    LET a1     == trim(f.sheetRangeA1)
        parsed == parseA1Range(a1)
    IN  IF parsed = NullRange THEN << >>
        ELSE autoCascade(sheetRowOf(record), sheetColOf(record), normalizeRange(parsed, g), g)

\* The values a condition compares: leftValues of passesFilters.
leftValuesOf(record, f, g) ==
    IF f.source = "output"
    THEN << toString(Get(record, f.field)) >>
    ELSE sheetValuesAuto(record, f, g)

\* filterStep with the negated operators tested on some value, as the others are.
filterStepSomeOnly(record, f, g) ==
    LET leftValues == leftValuesOf(record, f, g)
    IN  IF Len(leftValues) = 0 THEN isNegOp(f.op)
        ELSE IF f.op = "isEmpty" \/ f.op = "isNotEmpty"
             THEN \E i \in DOMAIN leftValues : evalOp(leftValues[i], f.op, << >>)
        ELSE \E i \in DOMAIN leftValues : evalOp(leftValues[i], f.op, f.value)

\* One iteration of the loop of passesFilters: FALSE is `return false`,
\* TRUE is falling through (or `continue`) to the next condition.
filterStep(record, f, g) ==
    LET right      == f.value
        neg        == isNegOp(f.op)
        leftValues == leftValuesOf(record, f, g)
    IN  IF Len(leftValues) = 0 THEN neg
        ELSE IF f.op = "isEmpty" \/ f.op = "isNotEmpty"
             THEN \E i \in DOMAIN leftValues : evalOp(leftValues[i], f.op, << >>)
        ELSE IF ~neg
             THEN \E i \in DOMAIN leftValues : evalOp(leftValues[i], f.op, right)
        ELSE \A i \in DOMAIN leftValues : evalOp(leftValues[i], f.op, right)

\* passesFilters returning after its first condition.
passesFiltersFirstOnly(record, filters, g) ==
    IF filters = << >> THEN TRUE ELSE filterStep(record, Head(filters), g)

RECURSIVE passesFilters(_, _, _)
passesFilters(record, filters, g) ==
    IF filters = << >> THEN TRUE
    ELSE IF ~filterStep(record, Head(filters), g) THEN FALSE
    ELSE passesFilters(record, Tail(filters), g)

applyFiltersToRows(rows, filters, g) ==
    IF Len(filters) = 0 THEN rows
    ELSE SelectSeq(rows, LAMBDA r : passesFilters(r, filters, g))

---------------------------------------------------------------------------
(* Duplicates *)

KeySep == << "\\u241F" >>

dupKeyOf(r, headers) ==
    join([i \in DOMAIN headers |-> trim(toString(Get(r, headers[i])))], KeySep)

\* findDuplicates that returns only the second and later occurrences of a key.
findDuplicatesExtrasOnly(rows, headers) ==
    LET marked == [i \in DOMAIN rows |->
                     [row |-> rows[i],
                      extra |-> \E j \in 1 .. (i - 1) :
                                   dupKeyOf(rows[j], headers) = dupKeyOf(rows[i], headers)]]
        extras == SelectSeq(marked, LAMBDA m : m.extra)
        duplicateRows == [i \in DOMAIN extras |-> extras[i].row]
    IN  [groups        |-> Cardinality({ dupKeyOf(duplicateRows[i], headers) : i \in DOMAIN duplicateRows }),
         dupRowCount   |-> Len(duplicateRows),
         duplicateRows |-> duplicateRows]

findDuplicates(rows, headers) ==
    LET counts(k)     == Cardinality({ i \in DOMAIN rows : dupKeyOf(rows[i], headers) = k })
        duplicateRows == SelectSeq(rows, LAMBDA r : counts(dupKeyOf(r, headers)) > 1)
        keys          == { dupKeyOf(rows[i], headers) : i \in DOMAIN rows }
    IN  [groups        |-> Cardinality({ k \in keys : counts(k) > 1 }),
         dupRowCount   |-> Len(duplicateRows),
         duplicateRows |-> duplicateRows]

---------------------------------------------------------------------------
(* Records mode: generateRecordsCsv *)

EmptyMap == << >>

\* mapSetAll that keeps the value a key already has.
mapSetAllKeepFirst(merged, map) ==
    [k \in (DOMAIN merged) \cup (DOMAIN map) |-> IF k \in DOMAIN merged THEN merged[k] ELSE map[k]]

\* for (const [k, v] of map.entries()) merged.set(k, v)
mapSetAll(merged, map) ==
    [k \in (DOMAIN merged) \cup (DOMAIN map) |-> IF k \in DOMAIN map THEN map[k] ELSE merged[k]]

headersRawOf(cols) == filterBoolean([i \in DOMAIN cols |-> trim(cols[i].header)])

\* headerMap.set(headersRaw[i], headers[i]) for i ascending: the last i wins.
headerMapOf(headersRaw, headers) ==
    [h \in Range(headersRaw) |->
        headers[CHOOSE i \in DOMAIN headersRaw :
                    headersRaw[i] = h /\ \A j \in DOMAIN headersRaw : headersRaw[j] = h => j <= i]]

\* One iteration of the loop over col.rangesA1; acc = [merged, warnings, headerKeyKind].
mergeRangeStep(acc, a1, outHeader, g) ==
    LET t      == trim(a1)
        parsed == parseA1Range(t)
        rm     == getRolesMap(g, parsed)
        w1     == IF rm.warning # << >>
                  THEN << [kind |-> "range", header |-> outHeader, range |-> t, text |-> rm.warning[1]] >>
                  ELSE << >>
        w2     == IF acc.headerKeyKind # "none" /\ acc.headerKeyKind # rm.keyKind
                  THEN << [kind |-> "mixed", header |-> outHeader] >>
                  ELSE << >>
    IN  IF t = << >> THEN acc
        ELSE IF parsed = NullRange
             THEN [acc EXCEPT !.warnings =
                       @ \o << [kind |-> "invalid", header |-> outHeader, range |-> t] >>]
        ELSE [merged        |-> mapSetAll(acc.merged, rm.map),
              warnings      |-> acc.warnings \o w1 \o w2,
              headerKeyKind |-> IF acc.headerKeyKind # "none" THEN acc.headerKeyKind ELSE rm.keyKind]

RECURSIVE mergeRanges(_, _, _, _)
mergeRanges(acc, rangesA1, outHeader, g) ==
    IF rangesA1 = << >> THEN acc
    ELSE mergeRanges(mergeRangeStep(acc, Head(rangesA1), outHeader, g), Tail(rangesA1), outHeader, g)

\* One iteration of the loop over rolesColumns; acc = [colMaps, allKeys, warnings].
columnStep(acc, col, headerMap, g) ==
    LET userHeader == trim(col.header)
        outHeader  == IF userHeader \in DOMAIN headerMap THEN headerMap[userHeader] ELSE userHeader
        m          == mergeRanges([merged |-> EmptyMap, warnings |-> acc.warnings,
                                   headerKeyKind |-> "none"], col.rangesA1, outHeader, g)
    IN  IF userHeader = << >> THEN acc
        ELSE [colMaps  |-> [h \in (DOMAIN acc.colMaps) \cup { outHeader } |->
                               IF h = outHeader THEN m.merged ELSE acc.colMaps[h]],
              allKeys  |-> acc.allKeys \cup DOMAIN m.merged,
              warnings |-> m.warnings]

RECURSIVE buildColMaps(_, _, _, _)
buildColMaps(acc, cols, headerMap, g) ==
    IF cols = << >> THEN acc
    ELSE buildColMaps(columnStep(acc, Head(cols), headerMap, g), Tail(cols), headerMap, g)

\* compareRoleKeys with the kinds the other way round: column keys first.
compareRoleKeysColsFirst(a, b) ==
    LET pa == parseRoleKey(a)
        pb == parseRoleKey(b)
    IN  IF pa = NullKey \/ pb = NullKey THEN localeCompare(a, b)
        ELSE IF pa.kind # pb.kind THEN (IF pa.kind = "col" THEN -1 ELSE 1)
        ELSE pa.idx - pb.idx

\* The comparator handed to Array.prototype.sort.
compareRoleKeys(a, b) ==
    LET pa == parseRoleKey(a)
        pb == parseRoleKey(b)
    IN  IF pa = NullKey \/ pb = NullKey THEN localeCompare(a, b)
        ELSE IF pa.kind # pb.kind THEN (IF pa.kind = "row" THEN -1 ELSE 1)
        ELSE pa.idx - pb.idx

\* Array.from(allKeys).sort(cmp): the elements in an order the comparator accepts.
RECURSIVE sortKeys(_)
sortKeys(keys) ==
    IF keys = {} THEN << >>
    ELSE LET first == CHOOSE k \in keys : \A x \in keys : compareRoleKeys(k, x) <= 0
         IN  << first >> \o sortKeys(keys \ { first })

\* record built for key k: provenance first, then one field per header.
recordForKey(k, headers, colMaps) ==
    LET pk   == parseRoleKey(k)
        prov == IF pk.kind = "row" THEN { SheetRowKey }
                ELSE IF pk.kind = "col" THEN { SheetColKey } ELSE {}
    IN  [f \in prov \cup Range(headers) |->
            IF f \in Range(headers)
            THEN (IF f \in DOMAIN colMaps /\ k \in DOMAIN colMaps[f] THEN colMaps[f][k] ELSE << >>)
            ELSE Num(pk.idx)]

hasAny(record) ==
    \E kk \in DOMAIN record :
        kk # SheetRowKey /\ kk # SheetColKey /\ trim(toString(record[kk])) # << >>

\* keepsRecord without the required-column test.
keepsRecordAnyField(record, useRequired, reqOut) == hasAny(record)

keepsRecord(record, useRequired, reqOut) ==
    hasAny(record) /\ ~(useRequired /\ trim(toString(Get(record, reqOut))) = << >>)

\* The tail of a run, from the warning about the filters on: loc holds the locals
\* computed so far, filtered the result of applyFiltersToRows, dups of findDuplicates.
recordsOutput(loc, filters, filtered, dups) ==
    LET isColumnBased == loc.producedColKeys > 0 /\ loc.producedColKeys >= loc.producedRowKeys
        w3 == IF Len(filters) > 0
              THEN << [kind |-> "filters", kept |-> Len(filtered), of |-> Len(loc.rows),
                       unit |-> IF isColumnBased THEN "columns" ELSE "rows"] >>
              ELSE << >>
        w4 == IF dups.dupRowCount > 0
              THEN << [kind |-> "duplicates", rows |-> dups.dupRowCount, groups |-> dups.groups] >>
              ELSE << [kind |-> "duplicates", rows |-> 0, groups |-> 0] >>
    IN  [headers     |-> loc.headers,
         sortedKeys  |-> loc.sortedKeys,
         reqOut      |-> loc.reqOut,
         useRequired |-> loc.useRequired,
         records     |-> loc.records,
         rows        |-> loc.rows,
         filtered    |-> filtered,
         warnings    |-> loc.warnings \o w3 \o w4,
         dupCsv      |-> IF dups.dupRowCount > 0 THEN toCsv(loc.headers, dups.duplicateRows) ELSE << >>,
         csv         |-> toCsv(loc.headers, filtered)]

\* The loop over sortedKeys that builds the rows.
recordsRows(headers, headerMap, built, sortedKeys, required) ==
    LET reqUser     == trim(required)
        reqOut      == IF reqUser = << >> THEN << >>
                       ELSE IF reqUser \in DOMAIN headerMap THEN headerMap[reqUser] ELSE reqUser
        useRequired == reqOut # << >> /\ reqOut \in Range(headers)
        records     == [i \in DOMAIN sortedKeys |-> recordForKey(sortedKeys[i], headers, built.colMaps)]
    IN  [headers     |-> headers,
         sortedKeys  |-> sortedKeys,
         reqOut      |-> reqOut,
         useRequired |-> useRequired,
         records     |-> records,
         rows        |-> SelectSeq(records, LAMBDA rec : keepsRecord(rec, useRequired, reqOut)),
         producedRowKeys |->
             Cardinality({ i \in DOMAIN sortedKeys : parseRoleKey(sortedKeys[i]).kind = "row" }),
         producedColKeys |->
             Cardinality({ i \in DOMAIN sortedKeys : parseRoleKey(sortedKeys[i]).kind = "col" }),
         warnings    |-> built.warnings]

recordsFiltered(loc, filters, filtered, headers) ==
    recordsOutput(loc, filters, filtered, findDuplicates(filtered, headers))

recordsKept(loc, filters, headers, g) ==
    recordsFiltered(loc, filters, applyFiltersToRows(loc.rows, filters, g), headers)

recordsSorted(headers, headerMap, built, required, filters, g) ==
    recordsKept(recordsRows(headers, headerMap, built, sortKeys(built.allKeys), required),
                filters, headers, g)

\* The locals of a run that gets past the "No headers defined." return.
recordsRun(g, cols, required, filters) ==
    LET headersRaw == headersRawOf(cols)
        headers    == makeUniqueHeaders(headersRaw)
        headerMap  == headerMapOf(headersRaw, headers)
    IN  recordsSorted(headers, headerMap,
                      buildColMaps([colMaps |-> EmptyMap, allKeys |-> {}, warnings |-> << >>],
                                   cols, headerMap, g),
                      required, filters, g)

\* The state updates at the end of a run.
setRolesResults(run) ==
    /\ rolesCsv' = run.csv
    /\ rolesWarnings' = run.warnings
    /\ rolesDupCsv' = run.dupCsv
    /\ rolesRun' = [ran |-> TRUE, headers |-> run.headers, sortedKeys |-> run.sortedKeys,
                    reqOut |-> run.reqOut, useRequired |-> run.useRequired,
                    records |-> run.records, rows |-> run.rows, filtered |-> run.filtered]

NoRun == [ran |-> FALSE]

generateRecordsCsv ==
    /\ IF Len(grid) = 0
       THEN UNCHANGED rolesVars
       ELSE IF headersRawOf(rolesColumns) = << >>
       THEN /\ rolesCsv' = << >>
            /\ rolesWarnings' = << [kind |-> "noHeaders"] >>
            /\ rolesDupCsv' = << >>
            /\ rolesRun' = NoRun
            /\ UNCHANGED << rolesColumns, requiredRoleHeader, rolesFilters >>
       ELSE /\ setRolesResults(recordsRun(grid, rolesColumns, requiredRoleHeader, rolesFilters))
            /\ UNCHANGED << rolesColumns, requiredRoleHeader, rolesFilters >>
    /\ UNCHANGED << grid, call, restVars >>
    /\ UNCHANGED assignVars

---------------------------------------------------------------------------
(* Assignments mode: generateAssignmentsCsv *)

\* record[k] = v
setKey(record, k, v) ==
    [f \in (DOMAIN record) \cup { k } |-> IF f = k THEN v ELSE record[f]]

trimAll(seq) == [i \in DOMAIN seq |-> trim(seq[i])]

autoValueForRange(record, rangeA1, g) ==
    LET vals    == sheetValuesAuto(record, [source |-> "sheet", field |-> << >>,
                                            sheetRangeA1 |-> rangeA1, op |-> "like",
                                            value |-> << >>], g)
        cleaned == filterBoolean(trimAll(vals))
    IN  join(cleaned, << " " >>)

autoValueForRanges(record, rangesA1, g) ==
    LET vs    == [i \in DOMAIN rangesA1 |->
                    IF trim(rangesA1[i]) = << >> THEN << >>
                    ELSE autoValueForRange(record, trim(rangesA1[i]), g)]
        parts == filterBoolean(vs)
    IN  join(parts, << " " >>)

\* The loop over assignExtraColumns, from index k on.
RECURSIVE addExtraColumns(_, _, _, _, _)
addExtraColumns(record, k, extraColumns, extraHeadersUnique, g) ==
    IF k > Len(extraColumns) THEN record
    ELSE LET spec  == extraColumns[k]
             userH == trim(spec.header)
             skip  == userH = << >> \/ k > Len(extraHeadersUnique)
                      \/ extraHeadersUnique[k] = << >>
             next  == IF skip THEN record
                      ELSE setKey(record, extraHeadersUnique[k],
                                  autoValueForRanges(record, spec.rangesA1, g))
         IN  addExtraColumns(next, k + 1, extraColumns, extraHeadersUnique, g)

marksOf(markValues) == filterBoolean(trimAll(split(markValues, ",")))

markSetOf(markValues) == { toLowerCase(m) : m \in Range(marksOf(markValues)) }

assignBaseHeadersRaw(aHeader, bHeader) ==
    << IF trim(aHeader) = << >> THEN << "O", "b", "j", "e", "c", "t", "A" >> ELSE trim(aHeader),
       IF trim(bHeader) = << >> THEN << "O", "b", "j", "e", "c", "t", "B" >> ELSE trim(bHeader) >>

assignHeadersUnique(aHeader, bHeader, extraColumns) ==
    makeUniqueHeaders(assignBaseHeadersRaw(aHeader, bHeader) \o headersRawOf(extraColumns))

ScanStart ==
    [outRows |-> << >>, totalMarked |-> 0, emitted |-> 0, skippedOutOfBounds |-> 0,
     skippedMissingA |-> 0, skippedMissingB |-> 0]

\* idxA without the subtraction of the Object A range's first row or column.
idxAOfUnshifted(objAR, absRow, absCol) ==
    IF objAR.c0 = objAR.c1 THEN absRow ELSE absCol

idxAOf(objAR, absRow, absCol) ==
    IF objAR.c0 = objAR.c1 THEN absRow - objAR.r0 ELSE absCol - objAR.c0

idxBOf(objBR, absRow, absCol) ==
    IF objBR.r0 = objBR.r1 THEN absCol - objBR.c0 ELSE absRow - objBR.r0

\* scanCell without the bounds check: an index outside its vector reads undefined,
\* which `?? ""` turns into a missing label.
scanCellNoBoundsCheck(acc, i, j, c, g) ==
    LET cell   == trim(c.matrix[i + 1][j + 1])
        absRow == c.matR.r0 + i
        absCol == c.matR.c0 + j
        idxA   == idxAOf(c.objAR, absRow, absCol)
        idxB   == idxBOf(c.objBR, absRow, absCol)
        left   == IF idxA + 1 \in DOMAIN c.objA THEN trim(c.objA[idxA + 1]) ELSE << >>
        right  == IF idxB + 1 \in DOMAIN c.objB THEN trim(c.objB[idxB + 1]) ELSE << >>
        record == setKey(setKey(setKey(setKey(EmptyMap, c.baseAHeader, left),
                                       c.baseBHeader, right),
                                SheetRowKey, Num(absRow)),
                         SheetColKey, Num(absCol))
        marked == [acc EXCEPT !.totalMarked = @ + 1]
    IN  IF cell = << >> THEN acc
        ELSE IF toLowerCase(cell) \notin c.markSet THEN acc
        ELSE IF left = << >> THEN [marked EXCEPT !.skippedMissingA = @ + 1]
        ELSE IF right = << >> THEN [marked EXCEPT !.skippedMissingB = @ + 1]
        ELSE [marked EXCEPT
                 !.outRows = @ \o << addExtraColumns(record, 1, c.extraColumns,
                                                     c.extraHeadersUnique, g) >>,
                 !.emitted = @ + 1]

\* The body of the double loop for matrix cell (i, j), 0-based; c bundles the locals
\* computed before the loop.
scanCell(acc, i, j, c, g) ==
    LET cell   == trim(c.matrix[i + 1][j + 1])
        absRow == c.matR.r0 + i
        absCol == c.matR.c0 + j
        idxA   == idxAOf(c.objAR, absRow, absCol)
        idxB   == idxBOf(c.objBR, absRow, absCol)
        left   == trim(c.objA[idxA + 1])
        right  == trim(c.objB[idxB + 1])
        record == setKey(setKey(setKey(setKey(EmptyMap, c.baseAHeader, left),
                                       c.baseBHeader, right),
                                SheetRowKey, Num(absRow)),
                         SheetColKey, Num(absCol))
        marked == [acc EXCEPT !.totalMarked = @ + 1]
    IN  IF cell = << >> THEN acc
        ELSE IF toLowerCase(cell) \notin c.markSet THEN acc
        ELSE IF idxA < 0 \/ idxA >= Len(c.objA) \/ idxB < 0 \/ idxB >= Len(c.objB)
             THEN [marked EXCEPT !.skippedOutOfBounds = @ + 1]
        ELSE IF left = << >> THEN [marked EXCEPT !.skippedMissingA = @ + 1]
        ELSE IF right = << >> THEN [marked EXCEPT !.skippedMissingB = @ + 1]
        ELSE [marked EXCEPT
                 !.outRows = @ \o << addExtraColumns(record, 1, c.extraColumns,
                                                     c.extraHeadersUnique, g) >>,
                 !.emitted = @ + 1]

\* Cells n, n + 1, ... of the matrix in row-major order (n is 0-based).
RECURSIVE scanFrom(_, _, _, _)
scanFrom(acc, n, c, g) ==
    LET h == Len(c.matrix)
        w == IF h = 0 THEN 0 ELSE Len(c.matrix[1])
    IN  IF n >= h * w THEN acc
        ELSE scanFrom(scanCell(acc, n \div w, n % w, c, g), n + 1, c, g)

\* The tail of a run, from the warning carrying the counters on: scan is the result
\* of the double loop, filtered of applyFiltersToRows, dups of findDuplicates.
assignmentsOutput(all, scan, filters, filtered, dups) ==
    LET w1 == << [kind |-> "marks", totalMarked |-> scan.totalMarked, emitted |-> scan.emitted,
                  skippedOutOfBounds |-> scan.skippedOutOfBounds,
                  skippedMissingA |-> scan.skippedMissingA,
                  skippedMissingB |-> scan.skippedMissingB] >>
        w2 == IF Len(scan.outRows) = 0 THEN << [kind |-> "noAssignments"] >> ELSE << >>
        w3 == IF Len(filters) > 0
              THEN << [kind |-> "filters", kept |-> Len(filtered), of |-> Len(scan.outRows),
                       unit |-> "rows"] >>
              ELSE << >>
        w4 == IF dups.dupRowCount > 0
              THEN << [kind |-> "duplicates", rows |-> dups.dupRowCount, groups |-> dups.groups] >>
              ELSE << [kind |-> "duplicates", rows |-> 0, groups |-> 0] >>
    IN  [headers  |-> all,
         outRows  |-> scan.outRows,
         filtered |-> filtered,
         warnings |-> w1 \o w2 \o w3 \o w4,
         dupCsv   |-> IF dups.dupRowCount > 0 THEN toCsv(all, dups.duplicateRows) ELSE << >>,
         csv      |-> toCsv(all, filtered)]

assignmentsFiltered(all, scan, filters, filtered) ==
    assignmentsOutput(all, scan, filters, filtered, findDuplicates(filtered, all))

assignmentsScanned(all, scan, filters, g) ==
    assignmentsFiltered(all, scan, filters, applyFiltersToRows(scan.outRows, filters, g))

\* The locals computed before the double loop.
assignmentsLocals(g, cfg, objAR, objBR, matR, all) ==
    [objAR |-> objAR, objBR |-> objBR, matR |-> matR,
     objA |-> trimAll(getRangeVector(g, objAR)),
     objB |-> trimAll(getRangeVector(g, objBR)),
     matrix |-> [i \in DOMAIN getRange2D(g, matR) |-> trimAll(getRange2D(g, matR)[i])],
     markSet |-> markSetOf(cfg.markValues),
     baseAHeader |-> all[1], baseBHeader |-> all[2],
     extraHeadersUnique |-> SubSeq(all, 3, Len(all)),
     extraColumns |-> cfg.extraColumns]

assignmentsWith(g, cfg, objAR, objBR, matR, all) ==
    assignmentsScanned(all, scanFrom(ScanStart, 0, assignmentsLocals(g, cfg, objAR, objBR, matR, all), g),
                       cfg.filters, g)

\* The locals of a run whose three ranges parse and whose A and B ranges are vectors.
assignmentsRun(g, cfg) ==
    assignmentsWith(g, cfg,
                    normalizeRange(parseA1Range(cfg.objARange), g),
                    normalizeRange(parseA1Range(cfg.objBRange), g),
                    normalizeRange(parseA1Range(cfg.matrixRange), g),
                    assignHeadersUnique(cfg.aHeader, cfg.bHeader, cfg.extraColumns))

\* The state updates at the end of a run.
setAssignResults(run) ==
    /\ assignCsv' = run.csv
    /\ assignWarnings' = run.warnings
    /\ assignDupCsv' = run.dupCsv
    /\ assignRun' = [ran |-> TRUE, headers |-> run.headers,
                     outRows |-> run.outRows, filtered |-> run.filtered]

isVector(rng) == rng.c0 = rng.c1 \/ rng.r0 = rng.r1

\* The warnings of the orientation checks on Object A and Object B.
orientationWarnings(objAR, objBR) ==
    (IF ~isVector(objAR) THEN << [kind |-> "objectANotVector"] >> ELSE << >>)
    \o (IF ~isVector(objBR) THEN << [kind |-> "objectBNotVector"] >> ELSE << >>)

assignConfig ==
    [aHeader |-> assignAHeader, bHeader |-> assignBHeader, objARange |-> assignObjARange,
     objBRange |-> assignObjBRange, matrixRange |-> assignMatrixRange,
     markValues |-> assignMarkValues, extraColumns |-> assignExtraColumns,
     filters |-> assignFilters]

assignConfigVars ==
    << assignAHeader, assignBHeader, assignObjARange, assignObjBRange, assignMatrixRange,
       assignMarkValues, assignExtraColumns, assignFilters >>

\* generateAssignmentsCsv whose orientation return leaves the CSV texts as they are.
generateAssignmentsCsvKeepingCsv ==
    /\ IF Len(grid) = 0
       THEN UNCHANGED << assignCsv, assignWarnings, assignDupCsv, assignRun >>
       ELSE IF \/ parseA1Range(assignObjARange) = NullRange
               \/ parseA1Range(assignObjBRange) = NullRange
               \/ parseA1Range(assignMatrixRange) = NullRange
       THEN /\ assignCsv' = << >>
            /\ assignWarnings' = << [kind |-> "invalidRanges"] >>
            /\ assignDupCsv' = << >>
            /\ assignRun' = NoRun
       ELSE IF orientationWarnings(normalizeRange(parseA1Range(assignObjARange), grid),
                                   normalizeRange(parseA1Range(assignObjBRange), grid)) # << >>
       THEN /\ assignWarnings' =
                   orientationWarnings(normalizeRange(parseA1Range(assignObjARange), grid),
                                       normalizeRange(parseA1Range(assignObjBRange), grid))
            /\ UNCHANGED << assignCsv, assignDupCsv >>
            /\ assignRun' = NoRun
       ELSE setAssignResults(assignmentsRun(grid, assignConfig))
    /\ UNCHANGED assignConfigVars
    /\ UNCHANGED << grid, call, restVars >>
    /\ UNCHANGED rolesVars

generateAssignmentsCsv ==
    /\ IF Len(grid) = 0
       THEN UNCHANGED << assignCsv, assignWarnings, assignDupCsv, assignRun >>
       ELSE IF \/ parseA1Range(assignObjARange) = NullRange
               \/ parseA1Range(assignObjBRange) = NullRange
               \/ parseA1Range(assignMatrixRange) = NullRange
       THEN /\ assignCsv' = << >>
            /\ assignWarnings' = << [kind |-> "invalidRanges"] >>
            /\ assignDupCsv' = << >>
            /\ assignRun' = NoRun
       ELSE IF orientationWarnings(normalizeRange(parseA1Range(assignObjARange), grid),
                                   normalizeRange(parseA1Range(assignObjBRange), grid)) # << >>
       THEN /\ assignWarnings' =
                   orientationWarnings(normalizeRange(parseA1Range(assignObjARange), grid),
                                       normalizeRange(parseA1Range(assignObjBRange), grid))
            /\ assignCsv' = << >>
            /\ assignDupCsv' = << >>
            /\ assignRun' = NoRun
       ELSE setAssignResults(assignmentsRun(grid, assignConfig))
    /\ UNCHANGED assignConfigVars
    /\ UNCHANGED << grid, call, restVars >>
    /\ UNCHANGED rolesVars

\* onChange of the three range inputs of the Map Ranges step.
onChangeAssignObjARange(value) ==
    /\ assignObjARange' = value
    /\ UNCHANGED << assignAHeader, assignBHeader, assignObjBRange, assignMatrixRange,
                    assignMarkValues, assignExtraColumns, assignFilters >>
    /\ UNCHANGED << assignCsv, assignWarnings, assignDupCsv, assignRun >>
    /\ UNCHANGED << grid, call, restVars >>
    /\ UNCHANGED rolesVars

onChangeAssignObjBRange(value) ==
    /\ assignObjBRange' = value
    /\ UNCHANGED << assignAHeader, assignBHeader, assignObjARange, assignMatrixRange,
                    assignMarkValues, assignExtraColumns, assignFilters >>
    /\ UNCHANGED << assignCsv, assignWarnings, assignDupCsv, assignRun >>
    /\ UNCHANGED << grid, call, restVars >>
    /\ UNCHANGED rolesVars

onChangeAssignMatrixRange(value) ==
    /\ assignMatrixRange' = value
    /\ UNCHANGED << assignAHeader, assignBHeader, assignObjARange, assignObjBRange,
                    assignMarkValues, assignExtraColumns, assignFilters >>
    /\ UNCHANGED << assignCsv, assignWarnings, assignDupCsv, assignRun >>
    /\ UNCHANGED << grid, call, restVars >>
    /\ UNCHANGED rolesVars

---------------------------------------------------------------------------
(* compareCsv *)

\* counts.get(k) ?? 0
countOfKey(counts, k) == IF k \in DOMAIN counts THEN counts[k] ELSE 0

\* The counting loop: one more for the key of every row.
RECURSIVE countKeys(_, _, _)
countKeys(rows, headersForKey, counts) ==
    IF rows = << >> THEN counts
    ELSE countKeys(Tail(rows), headersForKey,
                   setKey(counts, dupKeyOf(Head(rows), headersForKey),
                          countOfKey(counts, dupKeyOf(Head(rows), headersForKey)) + 1))

\* One of the two collecting loops: a row is pushed when its own side's count
\* exceeds the other side's, and its own side's count then goes down by one.
RECURSIVE collectOnly(_, _, _, _, _)
collectOnly(rows, headersForKey, mine, other, only) ==
    IF rows = << >> THEN [only |-> only, counts |-> mine]
    ELSE LET k == dupKeyOf(Head(rows), headersForKey)
         IN  IF countOfKey(mine, k) > countOfKey(other, k)
             THEN collectOnly(Tail(rows), headersForKey, setKey(mine, k, countOfKey(mine, k) - 1),
                              other, Append(only, Head(rows)))
             ELSE collectOnly(Tail(rows), headersForKey, mine, other, only)

\* The summary, as its parts, and the returned lists.
compareResult(L, R, leftHeaders, rightHeaders, commonHeaders, headersForKey, onlyInLeft, onlyInRight) ==
    [summary |-> [generatedRows |-> Len(L.rows), otherRows |-> Len(R.rows),
                  onlyInGenerated |-> Len(onlyInLeft), onlyInOther |-> Len(onlyInRight),
                  headersMatch |-> join(leftHeaders, << "|" >>) = join(rightHeaders, << "|" >>),
                  common |-> Len(commonHeaders),
                  of |-> Max(Len(leftHeaders), Len(rightHeaders))],
     onlyInLeft |-> onlyInLeft,
     onlyInRight |-> onlyInRight,
     headers |-> headersForKey]

compareCollected(L, R, leftHeaders, rightHeaders, commonHeaders, headersForKey, left, rightCounts) ==
    compareResult(L, R, leftHeaders, rightHeaders, commonHeaders, headersForKey, left.only,
                  collectOnly(R.rows, headersForKey, rightCounts, left.counts, << >>).only)

compareKeyed(L, R, leftHeaders, rightHeaders, commonHeaders, headersForKey) ==
    compareCollected(L, R, leftHeaders, rightHeaders, commonHeaders, headersForKey,
                     collectOnly(L.rows, headersForKey, countKeys(L.rows, headersForKey, EmptyMap),
                                 countKeys(R.rows, headersForKey, EmptyMap), << >>),
                     countKeys(R.rows, headersForKey, EmptyMap))

compareHeaders(L, R, leftHeaders, rightHeaders, commonHeaders) ==
    compareKeyed(L, R, leftHeaders, rightHeaders, commonHeaders,
                 IF Len(commonHeaders) > 0 THEN commonHeaders
                 ELSE makeUniqueHeaders(leftHeaders \o rightHeaders))

compareParsed(L, R, leftHeaders, rightHeaders) ==
    compareHeaders(L, R, leftHeaders, rightHeaders,
                   SelectSeq(leftHeaders, LAMBDA h : h \in Range(rightHeaders)))

compareTables(L, R) == compareParsed(L, R, filterBoolean(L.headers), filterBoolean(R.headers))

\* compareCsv as a plain set difference: a row is only on one side when its key
\* does not occur on the other side at all.
compareCsvBySet(leftCsv, rightCsv) ==
    LET res   == compareTables(parseCsvText(leftCsv), parseCsvText(rightCsv))
        L     == parseCsvText(leftCsv)
        R     == parseCsvText(rightCsv)
        keysL == { dupKeyOf(L.rows[i], res.headers) : i \in DOMAIN L.rows }
        keysR == { dupKeyOf(R.rows[i], res.headers) : i \in DOMAIN R.rows }
    IN  [res EXCEPT !.onlyInLeft = SelectSeq(L.rows, LAMBDA r : dupKeyOf(r, res.headers) \notin keysR),
                    !.onlyInRight = SelectSeq(R.rows, LAMBDA r : dupKeyOf(r, res.headers) \notin keysL)]

compareCsv(leftCsv, rightCsv) ==
    compareTables(parseCsvText(leftCsv), parseCsvText(rightCsv))

---------------------------------------------------------------------------
(* State after construction (the useState initial values) *)

RoleNameHeader == << "R", "o", "l", "e", "N", "a", "m", "e" >>
EntitlementNameHeader ==
    << "E", "n", "t", "i", "t", "l", "e", "m", "e", "n", "t", "N", "a", "m", "e" >>
DefaultMarkValues == << "1", ",", "X", ",", "x", ",", "Y", "E", "S", ",", "y", "e", "s" >>

NoCall == [fn |-> "none"]

rolesConstructed ==
    /\ rolesColumns = << [header |-> RoleNameHeader, rangesA1 |-> << << >> >>] >>
    /\ requiredRoleHeader = RoleNameHeader
    /\ rolesFilters = << >>
    /\ rolesCsv = << >>
    /\ rolesWarnings = << >>
    /\ rolesDupCsv = << >>
    /\ rolesRun = NoRun

assignConstructed ==
    /\ assignAHeader = RoleNameHeader
    /\ assignBHeader = EntitlementNameHeader
    /\ assignObjARange = << >>
    /\ assignObjBRange = << >>
    /\ assignMatrixRange = << >>
    /\ assignMarkValues = DefaultMarkValues
    /\ assignExtraColumns = << >>
    /\ assignFilters = << >>
    /\ assignCsv = << >>
    /\ assignWarnings = << >>
    /\ assignDupCsv = << >>
    /\ assignRun = NoRun

NoWorkbook == [SheetNames |-> << >>, Sheets |-> << >>, isNull |-> TRUE]

pageConstructed ==
    /\ step = 0
    /\ compareSummary = << >>
    /\ compareReportTxt = << >>
    /\ workbook = NoWorkbook
    /\ sheetName = << >>
    /\ mode = "roles"
    /\ templateSheetToLoadRef = << >>
    /\ readers = << >>
    /\ alerted = "none"

\* A text of the schema box: blank, no JSON, JSON without entities[], the JSON
\* of a schema (as typed, or as JSON.stringify lays it out with indent 2), or an
\* error message shown in the box.
textOf(kind, entities, pretty, message) ==
    [t |-> kind, entities |-> entities, pretty |-> pretty, message |-> message]

BlankText == textOf("blank", << >>, FALSE, "")

\* A schema: the names of its entities; NoSchema is null.
NoSchema == [isNull |-> TRUE, entities |-> << >>]

\* No submitAll is running.
NoSubmit == [pc |-> "none", items |-> << >>, selectedEntity |-> 0, pending |-> { }, polls |-> 0]

uploadConstructed ==
    /\ items = << >>
    /\ submitting = FALSE
    /\ schemaText = BlankText
    /\ schema = NoSchema
    /\ parseError = "null"
    /\ selectedEntity = 0
    /\ submit = NoSubmit

restConstructed == pageConstructed /\ uploadConstructed

\* A worksheet as sheet_to_json returns it (rows of texts) with its merged areas.
worksheet(rows, merges) == [rows |-> rows, merges |-> merges]

Sheet1 == << "S", "1" >>

\* A workbook whose only sheet holds the rows g.
bookOf(g) ==
    [SheetNames |-> << Sheet1 >>, Sheets |-> << worksheet(g, << >>) >>, isNull |-> FALSE]

\* The rest of the page once the sheet g has been opened from a workbook and the
\* wizard has been stepped to the generation step; the rest after construction
\* when there is no sheet.
sheetOpened(g, m) ==
    IF g = << >> THEN restConstructed
    ELSE /\ step = 4
         /\ compareSummary = << >>
         /\ compareReportTxt = << >>
         /\ workbook = bookOf(g)
         /\ sheetName = Sheet1
         /\ mode = m
         /\ templateSheetToLoadRef = << >>
         /\ readers = << >>
         /\ alerted = "none"
         /\ uploadConstructed

---------------------------------------------------------------------------
(* Inputs: sheets and range references *)

GridRows == 3
GridCols == 3

colLetters(c) == << UpperLetters[c + 1] >>
a1Cell(r, c) == colLetters(c) \o digitsOf(r + 1)
a1Range(r0, c0, r1, c1) == a1Cell(r0, c0) \o << ":" >> \o a1Cell(r1, c1)

\* The text of cell (r, c) of a labelled sheet, e.g. "b2" for B2.
cellLabel(r, c) == << LowerLetters[c + 1] >> \o digitsOf(r + 1)

\* A rows x cols sheet: every cell holds its own label, except the cells of
\* blanks; a padded sheet surrounds its texts with white space.
labelGrid(rows, cols, blanks, padded) ==
    [i \in 1 .. rows |->
        [j \in 1 .. cols |->
            IF << i - 1, j - 1 >> \in blanks
            THEN (IF padded THEN << " " >> ELSE << >>)
            ELSE (IF padded THEN << " " >> \o cellLabel(i - 1, j - 1) \o << " " >>
                  ELSE cellLabel(i - 1, j - 1))]]

\* No blank cell, one blank cell, or one blank row.
BlankPatterns(rows, cols) ==
    { {} }
    \cup { { << r, c >> } : r \in 0 .. (rows - 1), c \in 0 .. (cols - 1) }
    \cup { { << r, c >> : c \in 0 .. (cols - 1) } : r \in 0 .. (rows - 1) }

LabelGrids ==
    { labelGrid(GridRows, GridCols, b, p) : b \in BlankPatterns(GridRows, GridCols), p \in BOOLEAN }

\* Parsed ranges, also reversed and reaching one row or column beyond the sheet.
RawRanges ==
    [r0 : 0 .. GridRows, c0 : 0 .. GridCols, r1 : 0 .. GridRows, c1 : 0 .. GridCols]

---------------------------------------------------------------------------
(* getRolesMap called on its own *)

\* B2:B4 = [x, y, z]
ExampleColumnGrid ==
    << << << >>, << >> >>, << << >>, << "x" >> >>, << << >>, << "y" >> >>, << << >>, << "z" >> >> >>

\* B2:D2 = [a, b, c]
ExampleRowGrid ==
    << << << >>, << >>, << >>, << >> >>, << << >>, << "a" >>, << "b" >>, << "c" >> >> >>

RolesMapGrids == LabelGrids \cup { ExampleColumnGrid, ExampleRowGrid }

NoRolesMap == [map |-> EmptyMap, warning |-> << >>, keyKind |-> "none"]

InitRolesMap ==
    /\ restConstructed
    /\ grid \in RolesMapGrids
    /\ call \in { [fn |-> "getRolesMap", rng |-> rng, done |-> FALSE, ret |-> NoRolesMap] :
                     rng \in RawRanges }
    /\ rolesConstructed
    /\ assignConstructed

callGetRolesMap ==
    /\ call.fn = "getRolesMap"
    /\ ~call.done
    /\ call' = [call EXCEPT !.done = TRUE, !.ret = getRolesMap(grid, call.rng)]
    /\ UNCHANGED << grid, restVars >>
    /\ UNCHANGED rolesVars
    /\ UNCHANGED assignVars

NextRolesMap == callGetRolesMap

SpecRolesMap == InitRolesMap /\ [][NextRolesMap]_vars

\* The non-empty trimmed cells of row r, columns c .. c1, joined by one space.
RECURSIVE joinedRow(_, _, _, _)
joinedRow(g, r, c, c1) ==
    IF c > c1 THEN << >>
    ELSE LET v    == trim(Cell(g, r, c))
             rest == joinedRow(g, r, c + 1, c1)
         IN  IF v = << >> THEN rest
             ELSE IF rest = << >> THEN v
             ELSE v \o << " " >> \o rest

\* The entries of a roles map as (kind, index, value) triples.
entriesOf(map) ==
    { << parseRoleKey(k).kind, parseRoleKey(k).idx, map[k] >> : k \in DOMAIN map }

\* C3: getRolesMap classifies a normalized range by shape alone: width 1 gives one
\* row-keyed entry per row r0..r1 (the trimmed cell), otherwise height 1 gives one
\* column-keyed entry per column c0..c1, otherwise one row-keyed entry per row
\* holding the row's non-empty trimmed cells joined by one space, with a warning;
\* B2:B4 = [x,y,z] gives rows 1,2,3 and B2:D2 = [a,b,c] gives columns 1,2,3.
TheoremC3 ==
    (call.fn = "getRolesMap" /\ call.done) =>
        LET n   == normalizeRange(call.rng, grid)
            ret == call.ret
        IN  /\ (n.c0 = n.c1) =>
                    /\ ret.keyKind = "row"
                    /\ ret.warning = << >>
                    /\ entriesOf(ret.map) =
                           { << "row", r, trim(Cell(grid, r, n.c0)) >> : r \in n.r0 .. n.r1 }
                    /\ Cardinality(DOMAIN ret.map) = n.r1 - n.r0 + 1
            /\ (n.c0 # n.c1 /\ n.r0 = n.r1) =>
                    /\ ret.keyKind = "col"
                    /\ ret.warning = << >>
                    /\ entriesOf(ret.map) =
                           { << "col", c, trim(Cell(grid, n.r0, c)) >> : c \in n.c0 .. n.c1 }
                    /\ Cardinality(DOMAIN ret.map) = n.c1 - n.c0 + 1
            /\ (n.c0 # n.c1 /\ n.r0 # n.r1) =>
                    /\ ret.keyKind = "row"
                    /\ ret.warning # << >>
                    /\ entriesOf(ret.map) =
                           { << "row", r, joinedRow(grid, r, n.c0, n.c1) >> : r \in n.r0 .. n.r1 }
                    /\ Cardinality(DOMAIN ret.map) = n.r1 - n.r0 + 1
            /\ (grid = ExampleColumnGrid /\ call.rng = parseA1Range(<< "B", "2", ":", "B", "4" >>)) =>
                    entriesOf(ret.map) =
                        { << "row", 1, << "x" >> >>, << "row", 2, << "y" >> >>, << "row", 3, << "z" >> >> }
            /\ (grid = ExampleRowGrid /\ call.rng = parseA1Range(<< "B", "2", ":", "D", "2" >>)) =>
                    entriesOf(ret.map) =
                        { << "col", 1, << "a" >> >>, << "col", 2, << "b" >> >>, << "col", 3, << "c" >> >> }

\* A block range was mapped: its rows are joined and flagged.
WitnessC3 ==
    /\ call.fn = "getRolesMap" /\ call.done
    /\ call.ret.warning # << >>
    /\ \E k \in DOMAIN call.ret.map : \E i \in DOMAIN call.ret.map[k] : call.ret.map[k][i] = " "

---------------------------------------------------------------------------
(* sheetValuesAuto, and passesFilters on one sheet condition, called on their own *)

FilterOps == { "eq", "neq", "lt", "gt", "like", "notLike", "isEmpty", "isNotEmpty" }

AutoGrids ==
    { labelGrid(GridRows, GridCols, {}, FALSE),
      labelGrid(GridRows, GridCols, { << 1, 1 >> }, TRUE) }

\* Range references: every rectangle of the sheet, every cell, and references that
\* are reversed, padded, lower case, beyond the sheet, or malformed.
AutoRefs ==
    { a1Range(rs[1], cs[1], rs[2], cs[2]) :
        rs \in { x \in (0 .. (GridRows - 1)) \X (0 .. (GridRows - 1)) : x[1] <= x[2] },
        cs \in { x \in (0 .. (GridCols - 1)) \X (0 .. (GridCols - 1)) : x[1] <= x[2] } }
    \cup { a1Cell(r, c) : r \in 0 .. GridRows, c \in 0 .. GridCols }
    \cup { << " ", "b", "2", ":", "c", "3", " " >>, << "C", "3", ":", "A", "2" >>,
           << "2", "B" >>, << "B", "0" >>, << >> }
    \cup { a1Range(r, GridCols, r, GridCols + 1) : r \in 0 .. GridRows }

\* A record with the given provenance; NoIdx leaves the field out, and a record
\* whose __sheetRow is text (not a number) has no row provenance.
provRecord(row, col, rowIsText) ==
    LET keys == { << "N" >> }
                \cup (IF row # NoIdx THEN { SheetRowKey } ELSE {})
                \cup (IF col # NoIdx THEN { SheetColKey } ELSE {})
    IN  [k \in keys |->
            IF k = SheetRowKey THEN (IF rowIsText THEN digitsOf(row) ELSE Num(row))
            ELSE IF k = SheetColKey THEN Num(col)
            ELSE << "v" >>]

sheetCondition(ref, op, value) ==
    [source |-> "sheet", field |-> << >>, sheetRangeA1 |-> ref, op |-> op, value |-> value]

AutoCalls ==
    { [fn |-> "sheetValuesAuto",
       row |-> IF t THEN NoIdx ELSE r, col |-> c,
       record |-> provRecord(r, c, t),
       f |-> sheetCondition(ref, "like", << >>),
       done |-> FALSE, ret |-> << >>, condDone |-> FALSE, passed |-> FALSE] :
        r \in NoIdx .. (GridRows - 1), c \in NoIdx .. (GridCols - 1),
        t \in { FALSE }, ref \in AutoRefs }
    \cup
    { [fn |-> "sheetValuesAuto",
       row |-> NoIdx, col |-> c,
       record |-> provRecord(r, c, TRUE),
       f |-> sheetCondition(ref, "like", << >>),
       done |-> FALSE, ret |-> << >>, condDone |-> FALSE, passed |-> FALSE] :
        r \in { 1 }, c \in { 1 }, ref \in AutoRefs }

InitAuto ==
    /\ restConstructed
    /\ grid \in AutoGrids
    /\ call \in AutoCalls
    /\ rolesConstructed
    /\ assignConstructed

callSheetValuesAuto ==
    /\ call.fn = "sheetValuesAuto"
    /\ ~call.done
    /\ call' = [call EXCEPT !.done = TRUE, !.ret = sheetValuesAuto(call.record, call.f, grid)]
    /\ UNCHANGED << grid, restVars >>
    /\ UNCHANGED rolesVars
    /\ UNCHANGED assignVars

\* passesFilters on the one-condition list made of the call's range with an
\* operator and a compare value.
callConditionOnRange ==
    /\ call.fn = "sheetValuesAuto"
    /\ call.done
    /\ ~call.condDone
    /\ \E op \in FilterOps, value \in { << "b", "2" >> } :
          LET f == sheetCondition(call.f.sheetRangeA1, op, value)
          IN  call' = [call EXCEPT !.f = f, !.condDone = TRUE,
                                   !.passed = passesFilters(call.record, << f >>, grid)]
    /\ UNCHANGED << grid, restVars >>
    /\ UNCHANGED rolesVars
    /\ UNCHANGED assignVars

NextAuto == callSheetValuesAuto \/ callConditionOnRange

SpecAuto == InitAuto /\ [][NextAuto]_vars

\* The range a reference denotes on the sheet (NullRange if malformed).
rangeOnSheet(ref, g) ==
    IF parseA1Range(trim(ref)) = NullRange THEN NullRange
    ELSE normalizeRange(parseA1Range(trim(ref)), g)

isOneCell(n) == n # NullRange /\ n.r0 = n.r1 /\ n.c0 = n.c1

\* C5: on a range that normalizes to a single cell, sheetValuesAuto returns the
\* cell's value only if the record's provenance row and column are both known and
\* are that cell; otherwise it returns no value, and then a condition on that range
\* passes iff its operator is not-equals or not-contains.
TheoremC5 ==
    LET n       == rangeOnSheet(call.f.sheetRangeA1, grid)
        aligned == call.row = n.r0 /\ call.col = n.c0
    IN  (call.fn = "sheetValuesAuto" /\ call.done /\ isOneCell(n)) =>
            /\ aligned => call.ret = << Cell(grid, n.r0, n.c0) >>
            /\ ~aligned => call.ret = << >>
            /\ (call.condDone /\ ~aligned) => (call.passed <=> call.f.op \in { "neq", "notLike" })

\* A single-cell range met a record that has only a row, in the cell's row: no value,
\* and a negated condition passed.
WitnessC5 ==
    LET n == rangeOnSheet(call.f.sheetRangeA1, grid)
    IN  /\ call.fn = "sheetValuesAuto" /\ call.condDone
        /\ isOneCell(n)
        /\ call.row = n.r0 /\ call.col = NoIdx
        /\ call.ret = << >>
        /\ call.f.op = "notLike" /\ call.passed

\* The first rule of the cascade (a) .. (f) that applies to a range that is not a
\* single cell.
firstRule(row, col, n) ==
    LET rowIn == row # NoIdx /\ n.r0 <= row /\ row <= n.r1
        colIn == col # NoIdx /\ n.c0 <= col /\ col <= n.c1
    IN  IF rowIn /\ colIn THEN "a"
        ELSE IF n.c0 = n.c1 /\ rowIn THEN "b"
        ELSE IF n.r0 = n.r1 /\ colIn THEN "c"
        ELSE IF rowIn THEN "d"
        ELSE IF colIn THEN "e"
        ELSE "f"

\* C6: on a range that is not a single cell the values are those of the first
\* applicable rule: (a) the provenance cell, (b) the row's cell of a single column,
\* (c) the column's cell of a single row, (d) the row's slice, left to right, (e) the
\* column's slice, top to bottom, (f) every cell of the range, row-major.
TheoremC6 ==
    LET n    == rangeOnSheet(call.f.sheetRangeA1, grid)
        rule == firstRule(call.row, call.col, n)
        h    == n.r1 - n.r0 + 1
        w    == n.c1 - n.c0 + 1
    IN  (call.fn = "sheetValuesAuto" /\ call.done /\ n # NullRange /\ ~isOneCell(n)) =>
            /\ rule = "a" => call.ret = << Cell(grid, call.row, call.col) >>
            /\ rule = "b" => call.ret = << Cell(grid, call.row, n.c0) >>
            /\ rule = "c" => call.ret = << Cell(grid, n.r0, call.col) >>
            /\ rule = "d" =>
                    /\ Len(call.ret) = w
                    /\ \A j \in 1 .. w : call.ret[j] = Cell(grid, call.row, n.c0 + j - 1)
            /\ rule = "e" =>
                    /\ Len(call.ret) = h
                    /\ \A i \in 1 .. h : call.ret[i] = Cell(grid, n.r0 + i - 1, call.col)
            /\ rule = "f" =>
                    /\ Len(call.ret) = h * w
                    /\ \A i \in 1 .. h, j \in 1 .. w :
                          call.ret[(i - 1) * w + j] = Cell(grid, n.r0 + i - 1, n.c0 + j - 1)

\* A block range met a record whose cell lies inside it: rule (a) gave that one cell
\* although the row slice (d) applies too.
WitnessC6 ==
    LET n == rangeOnSheet(call.f.sheetRangeA1, grid)
    IN  /\ call.fn = "sheetValuesAuto" /\ call.done
        /\ n # NullRange /\ n.r0 < n.r1 /\ n.c0 < n.c1
        /\ firstRule(call.row, call.col, n) = "a"
        /\ Len(call.ret) = 1

---------------------------------------------------------------------------
(* passesFilters called on its own *)

MaxFilters == 2

FilterGrid ==
    << << << "a" >>, << " ", "A", " " >>, << "b" >> >>,
       << << "1" >>, << "1", "2" >>, << >> >> >>

FilterRecords ==
    { [k \in { << "N" >>, SheetRowKey } |-> IF k = SheetRowKey THEN Num(r) ELSE v] :
        r \in { 0, 1 }, v \in { << "a" >>, << " ", "A", "b" >>, << >>, << "2" >> } }

CompareValues == { << "a" >>, << "2" >>, << >> }

\* A1 resolves no value for a record that has only a row, A1:C2 the record's row,
\* C1:C2 one cell, and "1A" is malformed.
FilterRefs ==
    { << "A", "1" >>, << "A", "1", ":", "C", "2" >>, << "C", "1", ":", "C", "2" >>, << "1", "A" >> }

outputCondition(field, op, value) ==
    [source |-> "output", field |-> field, sheetRangeA1 |-> << >>, op |-> op, value |-> value]

FirstConditions ==
    { outputCondition(<< "N" >>, op, v) : op \in FilterOps, v \in CompareValues }
    \cup { outputCondition(<< "Z" >>, op, << >>) : op \in { "eq", "isEmpty", "bogus" } }
    \cup { sheetCondition(ref, op, v) : ref \in FilterRefs, op \in FilterOps, v \in CompareValues }

LaterConditions ==
    { outputCondition(<< "N" >>, "like", << "a" >>),
      outputCondition(<< "N" >>, "neq", << "2" >>),
      sheetCondition(<< "A", "1" >>, "notLike", << "a" >>),
      sheetCondition(<< "A", "1", ":", "C", "2" >>, "gt", << "1" >>) }

\* Lists of at most n conditions.
RECURSIVE filterLists(_)
filterLists(n) ==
    IF n = 0 THEN { << >> }
    ELSE IF n = 1 THEN { << >> } \cup { << f >> : f \in FirstConditions }
    ELSE filterLists(n - 1)
         \cup { fs \o << f >> : fs \in { x \in filterLists(n - 1) : Len(x) = n - 1 },
                                f \in LaterConditions }

InitFilters ==
    /\ restConstructed
    /\ grid = FilterGrid
    /\ call \in { [fn |-> "passesFilters", record |-> rec, filters |-> fs,
                    done |-> FALSE, ret |-> FALSE] :
                     rec \in FilterRecords, fs \in filterLists(MaxFilters) }
    /\ rolesConstructed
    /\ assignConstructed

callPassesFilters ==
    /\ call.fn = "passesFilters"
    /\ ~call.done
    /\ call' = [call EXCEPT !.done = TRUE,
                            !.ret = passesFilters(call.record, call.filters, grid)]
    /\ UNCHANGED << grid, restVars >>
    /\ UNCHANGED rolesVars
    /\ UNCHANGED assignVars

NextFilters == callPassesFilters

SpecFilters == InitFilters /\ [][NextFilters]_vars

NegatedOps == { "neq", "notLike" }

\* Whether one resolved value satisfies the operator.
satisfies(v, op, value) ==
    CASE op = "eq"         -> trim(v) = trim(value)
      [] op = "neq"        -> trim(v) # trim(value)
      [] op = "like"       -> includes(toLowerCase(v), toLowerCase(value))
      [] op = "notLike"    -> ~includes(toLowerCase(v), toLowerCase(value))
      [] op = "isEmpty"    -> trim(v) = << >>
      [] op = "isNotEmpty" -> trim(v) # << >>
      [] OTHER             -> evalOp(v, op, value)

\* Whether a condition passes: with no resolved value, iff it is negated; with
\* values, on every value if negated and on some value otherwise.
conditionPasses(record, f, g) ==
    LET vs == leftValuesOf(record, f, g)
    IN  IF vs = << >> THEN f.op \in NegatedOps
        ELSE IF f.op \in NegatedOps THEN \A i \in DOMAIN vs : satisfies(vs[i], f.op, f.value)
        ELSE \E i \in DOMAIN vs : satisfies(vs[i], f.op, f.value)

\* C7: passesFilters is true iff every condition of the list passes (so the empty
\* list passes), and a condition that resolves no left-hand value passes iff its
\* operator is not-equals or not-contains.
TheoremC7 ==
    (call.fn = "passesFilters" /\ call.done) =>
        /\ call.ret <=> \A i \in DOMAIN call.filters : conditionPasses(call.record, call.filters[i], grid)
        /\ call.filters = << >> => call.ret
        /\ (Len(call.filters) = 1 /\ leftValuesOf(call.record, call.filters[1], grid) = << >>) =>
               (call.ret <=> call.filters[1].op \in NegatedOps)

\* Two conditions were evaluated: the first passed on no value (negated), the second
\* failed, and so did the list.
WitnessC7 ==
    /\ call.fn = "passesFilters" /\ call.done
    /\ Len(call.filters) = 2
    /\ leftValuesOf(call.record, call.filters[1], grid) = << >>
    /\ call.filters[1].op \in NegatedOps
    /\ ~conditionPasses(call.record, call.filters[2], grid)
    /\ ~call.ret

\* The same condition with another operator.
withOp(f, op) == [f EXCEPT !.op = op]

\* C8: a condition that resolves one or more values passes iff some value satisfies
\* it (equals, less-than, greater-than, contains, is-empty, is-not-empty) or iff every
\* value satisfies it (not-equals, not-contains); so on the same values not-equals
\* passes exactly when equals fails, and not-contains exactly when contains fails.
TheoremC8 ==
    (call.fn = "passesFilters" /\ call.done /\ Len(call.filters) = 1) =>
        LET f  == call.filters[1]
            vs == leftValuesOf(call.record, f, grid)
        IN  vs # << >> =>
              /\ f.op \in (FilterOps \ NegatedOps) =>
                    (call.ret <=> \E i \in DOMAIN vs : satisfies(vs[i], f.op, f.value))
              /\ f.op \in NegatedOps =>
                    (call.ret <=> \A i \in DOMAIN vs : satisfies(vs[i], f.op, f.value))
              /\ f.op = "neq" =>
                    (call.ret <=> ~passesFilters(call.record, << withOp(f, "eq") >>, grid))
              /\ f.op = "notLike" =>
                    (call.ret <=> ~passesFilters(call.record, << withOp(f, "like") >>, grid))
              /\ f.op = "eq" =>
                    (call.ret <=> ~passesFilters(call.record, << withOp(f, "neq") >>, grid))
              /\ f.op = "like" =>
                    (call.ret <=> ~passesFilters(call.record, << withOp(f, "notLike") >>, grid))

\* A not-equals condition on a row slice of several values failed although some of
\* the values differ from the compare value.
WitnessC8 ==
    /\ call.fn = "passesFilters" /\ call.done /\ Len(call.filters) = 1
    /\ call.filters[1].op = "neq"
    /\ LET vs == leftValuesOf(call.record, call.filters[1], grid)
       IN  /\ Len(vs) >= 2
           /\ \E i \in DOMAIN vs : trim(vs[i]) # trim(call.filters[1].value)
           /\ \E i \in DOMAIN vs : trim(vs[i]) = trim(call.filters[1].value)
    /\ ~call.ret

---------------------------------------------------------------------------
(* Assignments runs *)

MaxMarks == 2

rowLabel(r) == << "R" >> \o digitsOf(r)
colLabel(c) == << "E" >> \o digitsOf(c)

\* A sheet laid out as a relationship matrix: Object B labels E1, E2, .. in row 0,
\* Object A labels R1, R2, .. in column 0, the corner empty, markText in the cells
\* of marks; the labels of blankLabels are missing.
matrixGrid(rows, cols, blankLabels, marks, markText) ==
    [i \in 1 .. rows |->
        [j \in 1 .. cols |->
            LET r == i - 1
                c == j - 1
            IN  IF << r, c >> \in blankLabels THEN << >>
                ELSE IF r = 0 /\ c = 0 THEN << >>
                ELSE IF r = 0 THEN colLabel(c)
                ELSE IF c = 0 THEN rowLabel(r)
                ELSE IF << r, c >> \in marks THEN markText
                ELSE << >>]]

interiorCells(rows, cols) == (1 .. (rows - 1)) \X (1 .. (cols - 1))

labelCells(rows, cols) ==
    { << r, 0 >> : r \in 1 .. (rows - 1) } \cup { << 0, c >> : c \in 1 .. (cols - 1) }

MatrixGrids ==
    { matrixGrid(GridRows, GridCols, b, m, << "X" >>) :
        b \in { {} } \cup { { x } : x \in labelCells(GridRows, GridCols) },
        m \in { x \in SUBSET interiorCells(GridRows, GridCols) : Cardinality(x) <= MaxMarks } }

\* The sheet of the example: A1:A2 = [R1, R2], B1:D1 = [E1, E2, E3], X in C2 and D3.
ExampleAssignGrid ==
    << << << "R", "1" >>, << "E", "1" >>, << "E", "2" >>, << "E", "3" >> >>,
       << << "R", "2" >>, << >>, << "X" >>, << >> >>,
       << << >>, << >>, << >>, << "X" >> >> >>

\* A sheet whose matrix cells hold different texts.
MixedMarksGrid ==
    << << << >>, << "E", "1" >>, << "E", "2" >> >>,
       << << " ", "R", "1" >>, << " ", "x", " " >>, << "Y", "E", "S" >> >>,
       << << "R", "2" >>, << "n", "o" >>, << "1" >> >> >>

NaturalARef == a1Range(1, 0, GridRows - 1, 0)
NaturalBRef == a1Range(0, 1, 0, GridCols - 1)
NaturalMRef == a1Range(1, 1, GridRows - 1, GridCols - 1)

\* Object A references: the label column, the same from the corner, its last cell
\* alone, the label row, a block, a malformed one.
ARefs ==
    { NaturalARef, a1Range(0, 0, GridRows - 1, 0), a1Cell(GridRows - 1, 0),
      NaturalBRef, << "A", "1", ":", "B", "2" >>, << "A" >> }

BRefs ==
    { NaturalBRef, a1Range(0, 0, 0, GridCols - 1), a1Cell(0, GridCols - 1),
      NaturalARef, << "B", "1", ":", "C", "2" >> }

MRefs ==
    { NaturalMRef, a1Range(0, 0, GridRows - 1, GridCols - 1),
      a1Range(GridRows - 1, GridCols - 1, 1, 1), << "M" >> }

scenario(g, a, b, m, marks, aHeader, bHeader, extras, filters) ==
    [grid |-> g, objARange |-> a, objBRange |-> b, matrixRange |-> m, markValues |-> marks,
     aHeader |-> aHeader, bHeader |-> bHeader, extraColumns |-> extras, filters |-> filters]

AssignScenarios ==
    { scenario(<< >>, NaturalARef, NaturalBRef, NaturalMRef, << "X" >>, << "A" >>, << "B" >>,
               << >>, << >>) }
    \cup
    { scenario(g, rs[1], rs[2], m, << "X" >>, << "A" >>, << "B" >>, << >>, << >>) :
        g \in MatrixGrids,
        rs \in (ARefs \X { NaturalBRef }) \cup ({ NaturalARef } \X BRefs),
        m \in MRefs }
    \cup
    { scenario(ExampleAssignGrid, a, << "B", "1", ":", "D", "1" >>, << "B", "2", ":", "D", "3" >>,
               << "X" >>, << "A" >>, << "B" >>, << >>, << >>) :
        a \in { << "A", "1", ":", "A", "2" >>, << "A", "2", ":", "A", "3" >> } }
    \cup
    { scenario(MixedMarksGrid, NaturalARef, NaturalBRef, NaturalMRef, marks, hs[1], hs[2], ex, fs) :
        marks \in { << "X" >>, DefaultMarkValues, << " ", "y", "e", "s", " ", ",", ",", "1" >> },
        hs \in { << << "A" >>, << "B" >> >>, << << " " >>, << "A" >> >>, << << "A" >>, << "A" >> >> },
        ex \in { << >>, << [header |-> << "D" >>, rangesA1 |-> << << "A", "1", ":", "A", "3" >> >>] >> },
        fs \in { << >>,
                 << outputCondition(<< "A" >>, "like", << "r", "1" >>) >>,
                 << sheetCondition(<< "B", "1", ":", "C", "1" >>, "neq", << "E", "1" >>) >> } }

InitAssign ==
    /\ \E sc \in AssignScenarios :
          /\ grid = sc.grid
          /\ assignAHeader = sc.aHeader
          /\ assignBHeader = sc.bHeader
          /\ assignObjARange = sc.objARange
          /\ assignObjBRange = sc.objBRange
          /\ assignMatrixRange = sc.matrixRange
          /\ assignMarkValues = sc.markValues
          /\ assignExtraColumns = sc.extraColumns
          /\ assignFilters = sc.filters
    /\ assignCsv = << >>
    /\ assignWarnings = << >>
    /\ assignDupCsv = << >>
    /\ assignRun = NoRun
    /\ rolesConstructed
    /\ call = NoCall
    /\ sheetOpened(grid, "assignments")

NextAssign == generateAssignmentsCsv

SpecAssign == InitAssign /\ [][NextAssign]_vars

\* The three ranges of the configuration, clamped to the sheet.
assignRanges ==
    [a |-> normalizeRange(parseA1Range(assignObjARange), grid),
     b |-> normalizeRange(parseA1Range(assignObjBRange), grid),
     m |-> normalizeRange(parseA1Range(assignMatrixRange), grid)]

\* The three references parse and Object A and Object B are single lines of cells.
structureValid ==
    /\ parseA1Range(assignObjARange) # NullRange
    /\ parseA1Range(assignObjBRange) # NullRange
    /\ parseA1Range(assignMatrixRange) # NullRange
    /\ (assignRanges.a.c0 = assignRanges.a.c1 \/ assignRanges.a.r0 = assignRanges.a.r1)
    /\ (assignRanges.b.c0 = assignRanges.b.c1 \/ assignRanges.b.r0 = assignRanges.b.r1)

markTokens ==
    { toLowerCase(trim(t)) : t \in Range(split(assignMarkValues, ",")) } \ { << >> }

\* The sheet cells (row, column) of the matrix range that hold a mark.
markedCells ==
    { rc \in (0 .. (gridRows(grid) - 1)) \X (0 .. (gridCols(grid) - 1)) :
        /\ inRange(assignRanges.m, rc[1], rc[2])
        /\ toLowerCase(trim(Cell(grid, rc[1], rc[2]))) \in markTokens }

\* The Object A cell lying in the mark's own sheet row (single-column A) or sheet
\* column (any other A), and the Object B cell lying in the mark's own sheet column
\* (single-row B) or sheet row (any other B).
alignedA(r, c) ==
    LET a == assignRanges.a
    IN  IF a.c0 = a.c1
        THEN [found |-> r >= a.r0 /\ r <= a.r1, label |-> trim(Cell(grid, r, a.c0))]
        ELSE [found |-> c >= a.c0 /\ c <= a.c1, label |-> trim(Cell(grid, a.r0, c))]

alignedB(r, c) ==
    LET b == assignRanges.b
    IN  IF b.r0 = b.r1
        THEN [found |-> c >= b.c0 /\ c <= b.c1, label |-> trim(Cell(grid, b.r0, c))]
        ELSE [found |-> r >= b.r0 /\ r <= b.r1, label |-> trim(Cell(grid, r, b.c0))]

\* Entry n (0-based) of a label vector, when there is one.
entryOf(vector, n) ==
    [found |-> n + 1 \in DOMAIN vector,
     label |-> IF n + 1 \in DOMAIN vector THEN trim(vector[n + 1]) ELSE << >>]

\* The entries at the mark's offsets (i, j) from the matrix's top-left corner.
relativeA(r, c) ==
    LET a == assignRanges.a
    IN  entryOf(getRangeVector(grid, a),
                IF a.c0 = a.c1 THEN r - assignRanges.m.r0 ELSE c - assignRanges.m.c0)

relativeB(r, c) ==
    LET b == assignRanges.b
    IN  entryOf(getRangeVector(grid, b),
                IF b.r0 = b.r1 THEN c - assignRanges.m.c0 ELSE r - assignRanges.m.r0)

\* Sheet cell and the two labels of the n-th record before filtering.
pairAt(n) ==
    LET row == assignRun.outRows[n]
    IN  [r |-> numOf(row[SheetRowKey]), c |-> numOf(row[SheetColKey]),
         a |-> row[assignRun.headers[1]], b |-> row[assignRun.headers[2]]]

labelPairs == [n \in DOMAIN assignRun.outRows |-> << pairAt(n).a, pairAt(n).b >>]

\* The records before filtering are, one per cell, the marked cells for which
\* lookA and lookB both find a non-blank label, and they carry those labels.
pairedBy(lookA(_, _), lookB(_, _)) ==
    /\ \A n \in DOMAIN assignRun.outRows :
          /\ pairAt(n).a = lookA(pairAt(n).r, pairAt(n).c).label
          /\ pairAt(n).b = lookB(pairAt(n).r, pairAt(n).c).label
    /\ { << pairAt(n).r, pairAt(n).c >> : n \in DOMAIN assignRun.outRows }
          = { rc \in markedCells :
                /\ lookA(rc[1], rc[2]).found /\ lookA(rc[1], rc[2]).label # << >>
                /\ lookB(rc[1], rc[2]).found /\ lookB(rc[1], rc[2]).label # << >> }
    /\ \A n1, n2 \in DOMAIN assignRun.outRows :
          n1 # n2 => << pairAt(n1).r, pairAt(n1).c >> # << pairAt(n2).r, pairAt(n2).c >>

\* The configuration of the example: A1:A2, B1:D1, B2:D3, mark set {X}.
isExampleRun ==
    /\ grid = ExampleAssignGrid
    /\ assignObjARange = << "A", "1", ":", "A", "2" >>
    /\ assignObjBRange = << "B", "1", ":", "D", "1" >>
    /\ assignMatrixRange = << "B", "2", ":", "D", "3" >>
    /\ assignMarkValues = << "X" >>

outOfBoundsCells ==
    { rc \in markedCells : ~alignedA(rc[1], rc[2]).found \/ ~alignedB(rc[1], rc[2]).found }

missingACells ==
    { rc \in markedCells \ outOfBoundsCells : alignedA(rc[1], rc[2]).label = << >> }

missingBCells ==
    { rc \in (markedCells \ outOfBoundsCells) \ missingACells :
        alignedB(rc[1], rc[2]).label = << >> }

emittedCells == ((markedCells \ outOfBoundsCells) \ missingACells) \ missingBCells

\* C4: once generateAssignmentsCsv has run on three parsable references with
\* single-line Object A and Object B, the run completed and its first warning
\* carries the counters: every marked cell is counted in exactly one of out of
\* bounds (an index outside its vector), missing A (else blank A label), missing B
\* (else blank B label) or emitted; the counters add up to totalMarked, and the
\* number of records before filtering, one per emitted cell, equals emitted.
TheoremC4 ==
    (assignWarnings # << >> /\ structureValid) =>
        /\ assignRun.ran
        /\ assignWarnings[1].kind = "marks"
        /\ assignWarnings[1].totalMarked = Cardinality(markedCells)
        /\ assignWarnings[1].skippedOutOfBounds = Cardinality(outOfBoundsCells)
        /\ assignWarnings[1].skippedMissingA = Cardinality(missingACells)
        /\ assignWarnings[1].skippedMissingB = Cardinality(missingBCells)
        /\ assignWarnings[1].emitted = Cardinality(emittedCells)
        /\ assignWarnings[1].totalMarked =
              assignWarnings[1].emitted + assignWarnings[1].skippedOutOfBounds
              + assignWarnings[1].skippedMissingA + assignWarnings[1].skippedMissingB
        /\ Len(assignRun.outRows) = assignWarnings[1].emitted
        /\ { << pairAt(n).r, pairAt(n).c >> : n \in DOMAIN assignRun.outRows } = emittedCells

\* A completed run in which one mark was skipped as out of bounds and another
\* was emitted.
WitnessC4 ==
    /\ assignRun.ran
    /\ assignWarnings[1].skippedOutOfBounds >= 1
    /\ assignWarnings[1].emitted >= 1

---------------------------------------------------------------------------
(* Records runs *)

HeaderN == << "N" >>
HeaderM == << "M" >>

columnSpec(header, ranges) == [header |-> header, rangesA1 |-> ranges]

FirstColumnRef  == a1Range(0, 0, GridRows - 1, 0)
SecondColumnRef == a1Range(0, 1, GridRows - 1, 1)
FirstRowRef     == a1Range(0, 0, 0, GridCols - 1)
SecondRowRef    == a1Range(1, 0, 1, GridCols - 1)

\* One or two vertical specs in both orders, horizontal specs, row- and
\* column-keyed specs together in both orders, ranges of one spec listed backwards
\* or of both orientations, repeated headers, a blank header, unusable ranges.
ColumnLists ==
    { << columnSpec(HeaderN, << FirstColumnRef >>) >>,
      << columnSpec(HeaderN, << FirstColumnRef >>), columnSpec(HeaderM, << SecondColumnRef >>) >>,
      << columnSpec(HeaderM, << SecondColumnRef >>), columnSpec(HeaderN, << FirstColumnRef >>) >>,
      << columnSpec(HeaderN, << FirstRowRef >>), columnSpec(HeaderM, << SecondRowRef >>) >>,
      << columnSpec(HeaderN, << FirstColumnRef >>), columnSpec(HeaderM, << FirstRowRef >>) >>,
      << columnSpec(HeaderM, << FirstRowRef >>), columnSpec(HeaderN, << FirstColumnRef >>) >>,
      << columnSpec(HeaderN, << a1Range(GridRows - 1, 0, GridRows - 1, 0),
                                 a1Range(0, 0, GridRows - 2, 0) >>) >>,
      << columnSpec(HeaderN, << FirstRowRef, FirstColumnRef >>) >>,
      << columnSpec(HeaderN, << a1Range(0, 0, 1, 0) >>),
         columnSpec(HeaderN, << a1Range(0, 1, 1, 1) >>) >>,
      << columnSpec(HeaderN, << a1Range(0, 0, 1, 0) >>),
         columnSpec(<< " ", "N", " " >>, << a1Range(0, 1, 1, 1) >>),
         columnSpec(HeaderM, << a1Range(0, 2, 1, 2) >>) >>,
      << columnSpec(<< " " >>, << FirstColumnRef >>), columnSpec(HeaderN, << SecondColumnRef >>) >>,
      << columnSpec(HeaderN, << << "z", "z" >>, << " " >>, a1Range(0, 0, 1, 1) >>) >>,
      << columnSpec(<< >>, << FirstColumnRef >>) >> }

RequiredHeaders == { << >>, HeaderN, << " ", "M" >>, << "Q" >> }

RecordFilters ==
    { << >>,
      << outputCondition(HeaderN, "neq", << "a", "1" >>) >>,
      << outputCondition(HeaderN, "isNotEmpty", << >>) >>,
      << sheetCondition(a1Range(0, GridCols - 1, GridRows - 1, GridCols - 1), "isNotEmpty", << >>) >>,
      << sheetCondition(<< "z", "z" >>, "eq", << "a", "1" >>) >> }

\* Required header and filters of a run: each varied with the other at rest, and
\* the required header together with a filter on the same header.
RequiredAndFilters ==
    (RequiredHeaders \X { << >> }) \cup ({ << >> } \X RecordFilters)
    \cup { << HeaderN, << outputCondition(HeaderN, "isNotEmpty", << >>) >> >> }

RecordGrids ==
    { << >> } \cup { labelGrid(GridRows, GridCols, b, FALSE) : b \in BlankPatterns(GridRows, GridCols) }

InitRecords ==
    /\ grid \in RecordGrids
    /\ rolesColumns \in ColumnLists
    /\ \E rf \in RequiredAndFilters :
          /\ requiredRoleHeader = rf[1]
          /\ rolesFilters = rf[2]
    /\ rolesCsv = << >>
    /\ rolesWarnings = << >>
    /\ rolesDupCsv = << >>
    /\ rolesRun = NoRun
    /\ assignConstructed
    /\ call = NoCall
    /\ sheetOpened(grid, "roles")

NextRecords == generateRecordsCsv

SpecRecords == InitRecords /\ [][NextRecords]_vars

\* Kind and index of the key a record was built for, read from its provenance.
originOf(record) ==
    IF SheetRowKey \in DOMAIN record THEN [kind |-> "row", idx |-> numOf(record[SheetRowKey])]
    ELSE [kind |-> "col", idx |-> numOf(record[SheetColKey])]

\* Row-keyed before column-keyed, and inside a kind the smaller index first.
originBefore(a, b) ==
    \/ a.kind = "row" /\ b.kind = "col"
    \/ a.kind = b.kind /\ a.idx < b.idx

inKeyOrder(rows) ==
    \A i, j \in DOMAIN rows : i < j => originBefore(originOf(rows[i]), originOf(rows[j]))

\* C9: the records of a Records run, before and after filtering, have all
\* row-keyed records before all column-keyed ones and strictly ascending indexes
\* inside each kind, whatever the order of the specs and of their ranges; the
\* filtered records are records of the run in the same relative order, and the CSV
\* lists them in that order.
TheoremC9 ==
    rolesRun.ran =>
        /\ inKeyOrder(rolesRun.rows)
        /\ inKeyOrder(rolesRun.filtered)
        /\ Range(rolesRun.filtered) \subseteq Range(rolesRun.rows)
        /\ rolesCsv = toCsv(rolesRun.headers, rolesRun.filtered)

\* A run whose specs list a row range before a column range, and whose filter
\* dropped a record and kept records of both kinds.
WitnessC9 ==
    /\ rolesRun.ran
    /\ rolesColumns[1].rangesA1 = << FirstRowRef >>
    /\ Len(rolesRun.filtered) < Len(rolesRun.rows)
    /\ \E i, j \in DOMAIN rolesRun.filtered :
          /\ originOf(rolesRun.filtered[i]).kind = "row"
          /\ originOf(rolesRun.filtered[j]).kind = "col"
          /\ \E k \in DOMAIN rolesRun.filtered :
                k # i /\ originOf(rolesRun.filtered[k]).kind = "row"

\* Some output field of the record is non-blank after trimming.
someFieldFilled(record) ==
    \E h \in Range(rolesRun.headers) : trim(record[h]) # << >>

\* The trimmed headers of the specs that have one.
namedHeaders ==
    { trim(rolesColumns[i].header) : i \in DOMAIN rolesColumns } \ { << >> }

headersRepeat ==
    \E i, j \in DOMAIN rolesColumns :
        i # j /\ trim(rolesColumns[i].header) # << >>
              /\ trim(rolesColumns[i].header) = trim(rolesColumns[j].header)

namedSpecs == SelectSeq(rolesColumns, LAMBDA col : trim(col.header) # << >>)

\* The values a spec's ranges map, by key.
valuesOfSpec(col) ==
    mergeRanges([merged |-> EmptyMap, warnings |-> << >>, headerKeyKind |-> "none"],
                col.rangesA1, << >>, grid).merged

\* The output header that the text names: the one of the first spec so named.
columnNamed(text) ==
    LET first == CHOOSE i \in DOMAIN namedSpecs :
                    /\ trim(namedSpecs[i].header) = text
                    /\ \A j \in 1 .. (i - 1) : trim(namedSpecs[j].header) # text
    IN  rolesRun.headers[first]

\* C2: in a Records run the candidate record of every key carries, under the i-th
\* de-duplicated header, the value that the i-th spec's ranges map for that key
\* (blank when they map none); and a required reference and an is-not-empty filter
\* that name the same header look at the same column, so the filter drops nothing
\* that the required column let through.
OriginalC2 ==
    rolesRun.ran =>
        /\ \A i \in DOMAIN namedSpecs, n \in DOMAIN rolesRun.records :
              rolesRun.records[n][rolesRun.headers[i]]
                = Get(valuesOfSpec(namedSpecs[i]), rolesRun.sortedKeys[n])
        /\ trim(requiredRoleHeader) \in namedHeaders =>
              /\ rolesRun.useRequired
              /\ rolesRun.reqOut = columnNamed(trim(requiredRoleHeader))
        /\ ( /\ trim(requiredRoleHeader) \in namedHeaders
             /\ rolesFilters = << outputCondition(trim(requiredRoleHeader), "isNotEmpty", << >>) >> )
              => rolesRun.filtered = rolesRun.rows

\* OriginalC2 for runs whose headers do not repeat.
DistinctHeadersC2 == ~headersRepeat => OriginalC2

---------------------------------------------------------------------------
(* The ranges of one output column spec merged into one map *)

MaxRanges == 3

\* References of one spec: a column, part of the next column, a row, a block, a
\* malformed one and a blank one.
MergeRefs ==
    { FirstColumnRef, a1Range(1, 1, GridRows - 1, 1), FirstRowRef, a1Range(0, 0, 1, 1),
      << "z", "z" >>, << " " >> }

RECURSIVE listsUpTo(_, _)
listsUpTo(S, n) ==
    IF n = 0 THEN { << >> }
    ELSE listsUpTo(S, n - 1)
         \cup { Append(l, x) : l \in { m \in listsUpTo(S, n - 1) : Len(m) = n - 1 }, x \in S }

MergeStart == [merged |-> EmptyMap, warnings |-> << >>, headerKeyKind |-> "none"]

InitMerge ==
    /\ restConstructed
    /\ grid \in { labelGrid(GridRows, GridCols, b, FALSE) : b \in BlankPatterns(GridRows, GridCols) }
    /\ call \in { [fn |-> "mergeRanges", rangesA1 |-> l, done |-> FALSE, ret |-> MergeStart] :
                     l \in listsUpTo(MergeRefs, MaxRanges) }
    /\ rolesConstructed
    /\ assignConstructed

\* The loop over col.rangesA1 for a spec with header N.
callMergeRanges ==
    /\ call.fn = "mergeRanges"
    /\ ~call.done
    /\ call' = [call EXCEPT !.done = TRUE,
                            !.ret = mergeRanges(MergeStart, call.rangesA1, HeaderN, grid)]
    /\ UNCHANGED << grid, restVars >>
    /\ UNCHANGED rolesVars
    /\ UNCHANGED assignVars

NextMerge == callMergeRanges

SpecMerge == InitMerge /\ [][NextMerge]_vars

\* The positions of the list whose reference is neither blank nor malformed.
validPositions(rangesA1) ==
    { i \in DOMAIN rangesA1 :
        trim(rangesA1[i]) # << >> /\ parseA1Range(trim(rangesA1[i])) # NullRange }

\* What the range at position i contributes, by key.
contributionOf(rangesA1, i) == getRolesMap(grid, parseA1Range(trim(rangesA1[i]))).map

lastContaining(rangesA1, k) ==
    CHOOSE i \in validPositions(rangesA1) :
        /\ k \in DOMAIN contributionOf(rangesA1, i)
        /\ \A j \in validPositions(rangesA1) :
              k \in DOMAIN contributionOf(rangesA1, j) => j <= i

\* C11: the merged map of one spec has as keys the union of the keys contributed
\* by its valid ranges, and holds for each key the value contributed by the last
\* range of the list that contains the key; a row key and a column key with the
\* same index are different keys.
TheoremC11 ==
    (call.fn = "mergeRanges" /\ call.done) =>
        /\ DOMAIN call.ret.merged
              = UNION { DOMAIN contributionOf(call.rangesA1, i) : i \in validPositions(call.rangesA1) }
        /\ \A k \in DOMAIN call.ret.merged :
              call.ret.merged[k]
                = contributionOf(call.rangesA1, lastContaining(call.rangesA1, k))[k]
        /\ \A r \in 0 .. (GridRows - 1), c \in 0 .. (GridCols - 1) : rowKey(r) # colKey(c)

\* A merge in which a later range overwrote the value of an earlier one with a
\* different value, and in which the row key and the column key of index 0 are both
\* present with different values.
WitnessC11 ==
    /\ call.fn = "mergeRanges" /\ call.done
    /\ \E i, j \in validPositions(call.rangesA1), k \in DOMAIN call.ret.merged :
          /\ i < j
          /\ k \in DOMAIN contributionOf(call.rangesA1, i)
          /\ k \in DOMAIN contributionOf(call.rangesA1, j)
          /\ contributionOf(call.rangesA1, i)[k] # contributionOf(call.rangesA1, j)[k]
    /\ rowKey(1) \in DOMAIN call.ret.merged
    /\ colKey(1) \in DOMAIN call.ret.merged
    /\ call.ret.merged[rowKey(1)] # call.ret.merged[colKey(1)]

---------------------------------------------------------------------------
(* Assignments runs between edits of the three ranges *)

EditGrids ==
    { matrixGrid(GridRows, GridCols, {}, m, << "X" >>) :
        m \in { { << 1, 1 >> }, { << 1, 1 >>, << GridRows - 1, GridCols - 1 >> } } }

\* What the user may type for Object A, Object B and the matrix: nothing, the
\* natural reference, a block, a malformed text.
EditARefs == { << >>, NaturalARef, << "A", "1", ":", "B", "2" >>, << "A" >> }
EditBRefs == { << >>, NaturalBRef, << "B", "1", ":", "C", "2" >> }
EditMRefs == { << " " >>, NaturalMRef, << "1", "B" >> }

InitAssignEdit ==
    /\ grid \in EditGrids
    /\ assignAHeader = << "A" >>
    /\ assignBHeader = << "B" >>
    /\ assignObjARange = << >>
    /\ assignObjBRange = << >>
    /\ assignMatrixRange = << >>
    /\ assignMarkValues = << "X" >>
    /\ assignExtraColumns = << >>
    /\ assignFilters = << >>
    /\ assignCsv = << >>
    /\ assignWarnings = << >>
    /\ assignDupCsv = << >>
    /\ assignRun = NoRun
    /\ rolesColumns = << columnSpec(HeaderN, << FirstColumnRef >>) >>
    /\ requiredRoleHeader = HeaderN
    /\ rolesFilters = << >>
    /\ rolesCsv = << >>
    /\ rolesWarnings = << >>
    /\ rolesDupCsv = << >>
    /\ rolesRun = NoRun
    /\ call = NoCall
    /\ sheetOpened(grid, "assignments")

NextAssignEdit ==
    \/ \E value \in EditARefs : onChangeAssignObjARange(value)
    \/ \E value \in EditBRefs : onChangeAssignObjBRange(value)
    \/ \E value \in EditMRefs : onChangeAssignMatrixRange(value)
    \/ generateAssignmentsCsv
    \/ generateRecordsCsv

SpecAssignEdit == InitAssignEdit /\ [][NextAssignEdit]_vars

someRangeUnusable ==
    \/ parseA1Range(assignObjARange) = NullRange
    \/ parseA1Range(assignObjBRange) = NullRange
    \/ parseA1Range(assignMatrixRange) = NullRange

\* C12: a generateAssignmentsCsv step on a loaded sheet whose Object A or Object B
\* range is not a single line, or one of whose three references is missing or
\* malformed, leaves both CSV texts empty and a non-empty warnings list that names
\* the failed constraint (unusable ranges, or Object A and/or Object B not a
\* vector), and changes nothing else: sheet, configuration, filters and the
\* Records-mode state stay as they were.
TheoremC12 ==
    [][ (generateAssignmentsCsv /\ Len(grid) > 0 /\ ~structureValid) =>
            /\ assignCsv' = << >>
            /\ assignDupCsv' = << >>
            /\ assignWarnings' # << >>
            /\ IF someRangeUnusable
               THEN assignWarnings' = << [kind |-> "invalidRanges"] >>
               ELSE /\ ([kind |-> "objectANotVector"] \in Range(assignWarnings'))
                         <=> ~(assignRanges.a.c0 = assignRanges.a.c1 \/ assignRanges.a.r0 = assignRanges.a.r1)
                    /\ ([kind |-> "objectBNotVector"] \in Range(assignWarnings'))
                         <=> ~(assignRanges.b.c0 = assignRanges.b.c1 \/ assignRanges.b.r0 = assignRanges.b.r1)
                    /\ \A n \in DOMAIN assignWarnings' :
                          assignWarnings'[n].kind \in { "objectANotVector", "objectBNotVector" }
            /\ UNCHANGED << grid, call, restVars >>
            /\ UNCHANGED assignConfigVars
            /\ UNCHANGED << rolesColumns, requiredRoleHeader, rolesFilters, rolesCsv,
                            rolesWarnings, rolesDupCsv, rolesRun >> ]_vars

\* After a Records run, an Assignments run on a block-shaped Object B has ended
\* with the orientation warning and empty CSV texts.
WitnessC12 ==
    /\ rolesRun.ran
    /\ ~someRangeUnusable
    /\ ~structureValid
    /\ assignWarnings = << [kind |-> "objectBNotVector"] >>
    /\ assignCsv = << >>

\* A non-blank reference that parseA1Range rejects.
isMalformed(ref) == trim(ref) # << >> /\ parseA1Range(trim(ref)) = NullRange

\* Some warning of the Records run names the reference as invalid.
warnedInvalid(ref) ==
    \E n \in DOMAIN rolesWarnings :
        /\ rolesWarnings[n].kind = "invalid"
        /\ rolesWarnings[n].range = trim(ref)

\* The conditions of the list other than sheet conditions on a malformed range.
usableFilters(filters) ==
    SelectSeq(filters, LAMBDA f : ~(f.source = "sheet" /\ isMalformed(f.sheetRangeA1)))

\* The part of C13 about the ranges of output column specs: every malformed range
\* of a spec with a header has its warning, and the run completes.
ColumnRangesC13 ==
    (Len(grid) > 0 /\ rolesWarnings # << >> /\ headersRawOf(rolesColumns) # << >>) =>
        /\ rolesRun.ran
        /\ \A i \in DOMAIN rolesColumns :
              trim(rolesColumns[i].header) # << >> =>
                  \A j \in DOMAIN rolesColumns[i].rangesA1 :
                      isMalformed(rolesColumns[i].rangesA1[j])
                          => warnedInvalid(rolesColumns[i].rangesA1[j])

\* C13: a Records run with headers completes; every malformed range of a spec and
\* every malformed range of a sheet condition has a warning of its own, and the
\* records kept are those that the remaining conditions keep, the condition on the
\* malformed range being skipped.
OriginalC13 ==
    (Len(grid) > 0 /\ rolesWarnings # << >> /\ headersRawOf(rolesColumns) # << >>) =>
        /\ ColumnRangesC13
        /\ \A n \in DOMAIN rolesFilters :
              (rolesFilters[n].source = "sheet" /\ isMalformed(rolesFilters[n].sheetRangeA1))
                  => warnedInvalid(rolesFilters[n].sheetRangeA1)
        /\ rolesRun.filtered = applyFiltersToRows(rolesRun.rows, usableFilters(rolesFilters), grid)

---------------------------------------------------------------------------
(* findDuplicates called on its own *)

MaxRows == 3

HeaderA == << "a" >>
HeaderB == << "b" >>

\* Rows with fields a and b; " 1" and "1" are equal after trimming.
DupRows ==
    { (HeaderA :> va) @@ (HeaderB :> vb) :
        va \in { << "1" >>, << " ", "1" >>, << "3" >> }, vb \in { << "2" >>, << "4" >> } }

\* All headers, one header, and a header no row has.
DupHeaderLists == { << HeaderA, HeaderB >>, << HeaderA >>, << HeaderB, << "c" >> >> }

NoDuplicates == [groups |-> 0, dupRowCount |-> 0, duplicateRows |-> << >>]

InitDup ==
    /\ restConstructed
    /\ grid = << >>
    /\ call \in { [fn |-> "findDuplicates", rows |-> rows, headers |-> hs, done |-> FALSE,
                    ret |-> NoDuplicates] :
                     rows \in listsUpTo(DupRows, MaxRows), hs \in DupHeaderLists }
    /\ rolesConstructed
    /\ assignConstructed

callFindDuplicates ==
    /\ call.fn = "findDuplicates"
    /\ ~call.done
    /\ call' = [call EXCEPT !.done = TRUE, !.ret = findDuplicates(call.rows, call.headers)]
    /\ UNCHANGED << grid, restVars >>
    /\ UNCHANGED rolesVars
    /\ UNCHANGED assignVars

NextDup == callFindDuplicates

SpecDup == InitDup /\ [][NextDup]_vars

\* The trimmed values of the row under the headers, as a tuple.
valuesUnder(row, headers) == [i \in DOMAIN headers |-> trim(Get(row, headers[i]))]

occurrences(rows, headers, row) ==
    Cardinality({ i \in DOMAIN rows : valuesUnder(rows[i], headers) = valuesUnder(row, headers) })

ExampleDupRows ==
    << (HeaderA :> << "1" >>) @@ (HeaderB :> << "2" >>),
       (HeaderA :> << "1" >>) @@ (HeaderB :> << "2" >>),
       (HeaderA :> << "3" >>) @@ (HeaderB :> << "4" >>) >>

\* C14: findDuplicates returns, in input order, exactly the rows whose trimmed
\* values under the headers occur at least twice, every occurrence included;
\* groups counts the distinct repeated value tuples and dupRowCount the returned
\* rows, so dupRowCount is 0 or at least twice groups; the example rows give
\* 1 group and 2 duplicate rows.
TheoremC14 ==
    (call.fn = "findDuplicates" /\ call.done) =>
        /\ call.ret.duplicateRows
              = SelectSeq(call.rows, LAMBDA r : occurrences(call.rows, call.headers, r) >= 2)
        /\ call.ret.groups
              = Cardinality({ valuesUnder(call.rows[i], call.headers) :
                                i \in { j \in DOMAIN call.rows :
                                          occurrences(call.rows, call.headers, call.rows[j]) >= 2 } })
        /\ call.ret.dupRowCount = Len(call.ret.duplicateRows)
        /\ call.ret.dupRowCount = 0 \/ call.ret.dupRowCount >= 2 * call.ret.groups
        /\ (call.rows = ExampleDupRows /\ call.headers = << HeaderA, HeaderB >>) =>
              (call.ret.groups = 1 /\ call.ret.dupRowCount = 2)

\* The call on the example rows, returned with its two duplicate rows.
WitnessC14 ==
    /\ call.fn = "findDuplicates" /\ call.done
    /\ call.rows = ExampleDupRows
    /\ call.headers = << HeaderA, HeaderB >>
    /\ call.ret.duplicateRows = SubSeq(ExampleDupRows, 1, 2)

---------------------------------------------------------------------------
(* toCsv followed by parseCsvText *)

MaxCsvRows == 2

\* Values with a comma, a double quote, a line feed, a carriage return, blanks.
CsvValues ==
    { << >>, << " " >>, << "x" >>, << "x", ",", "y" >>, << "\"", "x" >>, << "x", "\n", "y" >>,
      << "x", "\r", "\n", "y" >>, << "\r" >> }

CsvRecords ==
    { (HeaderA :> va) @@ (HeaderB :> vb) : va \in CsvValues, vb \in { << >>, << "y", "," >> } }

\* Header lists: two headers, one, a padded one, a blank one, a repeated one.
CsvHeaderLists ==
    { << HeaderA, HeaderB >>, << HeaderA >>, << << " ", "a" >>, HeaderB >>, << << >>, HeaderB >>,
      << HeaderA, HeaderA >> }

NoTable == [headers |-> << >>, rows |-> << >>]

InitCsv ==
    /\ restConstructed
    /\ grid = << >>
    /\ call \in { [fn |-> "toCsv", headers |-> hs, rows |-> rows, csv |-> << >>, ret |-> NoTable] :
                     hs \in CsvHeaderLists, rows \in listsUpTo(CsvRecords, MaxCsvRows) }
    /\ rolesConstructed
    /\ assignConstructed

callToCsv ==
    /\ call.fn = "toCsv"
    /\ call' = [call EXCEPT !.fn = "parseCsvText", !.csv = toCsv(call.headers, call.rows)]
    /\ UNCHANGED << grid, restVars >>
    /\ UNCHANGED rolesVars
    /\ UNCHANGED assignVars

callParseCsvText ==
    /\ call.fn = "parseCsvText"
    /\ call' = [call EXCEPT !.fn = "decoded", !.ret = parseCsvText(call.csv)]
    /\ UNCHANGED << grid, restVars >>
    /\ UNCHANGED rolesVars
    /\ UNCHANGED assignVars

NextCsv == callToCsv \/ callParseCsvText

SpecCsv == InitCsv /\ [][NextCsv]_vars

\* The decoded table has the records of the encoded one: as many, in the same
\* order, with the original value under every header.
sameRecords ==
    /\ Len(call.ret.rows) = Len(call.rows)
    /\ \A n \in DOMAIN call.rows :
          n \in DOMAIN call.ret.rows =>
              \A i \in DOMAIN call.headers :
                  Get(call.ret.rows[n], call.headers[i]) = Get(call.rows[n], call.headers[i])

plainHeaders(headers) ==
    /\ \A i \in DOMAIN headers : headers[i] # << >> /\ trim(headers[i]) = headers[i]
    /\ \A i, j \in DOMAIN headers : i # j => headers[i] # headers[j]

\* No value under the headers holds a carriage return, and the last record has a
\* value that is not blank.
plainRecords(headers, rows) ==
    /\ \A n \in DOMAIN rows, i \in DOMAIN headers :
          \A c \in DOMAIN Get(rows[n], headers[i]) : Get(rows[n], headers[i])[c] # "\r"
    /\ rows # << >> =>
          \E i \in DOMAIN headers : trim(Get(rows[Len(rows)], headers[i])) # << >>

---------------------------------------------------------------------------
(* compareCsv called on its own *)

MaxCompareRows == 3

CompareRecords ==
    { (HeaderA :> << "1" >>) @@ (HeaderB :> << "x" >>),
      (HeaderA :> << " ", "1" >>) @@ (HeaderB :> << "x" >>),
      (HeaderA :> << "2" >>) @@ (HeaderB :> << "y" >>) }

\* The generated CSV text, and texts whose first header is blank.
LeftCsvTexts ==
    { toCsv(<< HeaderA, HeaderB >>, rows) : rows \in listsUpTo(CompareRecords, MaxCompareRows) }
    \cup { << ",", "a", "\n", "1", ",", "x" >> }

\* The other CSV text: the same headers, in another order, fewer, none in common.
RightCsvTexts ==
    { toCsv(hs, rows) :
        hs \in { << HeaderA, HeaderB >>, << HeaderB, HeaderA >>, << HeaderA >>, << << "c" >> >> },
        rows \in listsUpTo(CompareRecords, MaxCompareRows - 1) }
    \cup { << ",", "a", "\n", "2", ",", "x" >>, << "c", "\n", "1" >> }

NoComparison == [onlyInLeft |-> << >>, onlyInRight |-> << >>, headers |-> << >>]

InitCompare ==
    /\ restConstructed
    /\ grid = << >>
    /\ call \in { [fn |-> "compareCsv", left |-> l, right |-> r, done |-> FALSE, ret |-> NoComparison] :
                     l \in LeftCsvTexts, r \in RightCsvTexts \cup LeftCsvTexts }
    /\ rolesConstructed
    /\ assignConstructed

callCompareCsv ==
    /\ call.fn = "compareCsv"
    /\ ~call.done
    /\ call' = [call EXCEPT !.done = TRUE, !.ret = compareCsv(call.left, call.right)]
    /\ UNCHANGED << grid, restVars >>
    /\ UNCHANGED rolesVars
    /\ UNCHANGED assignVars

NextCompare == callCompareCsv

SpecCompare == InitCompare /\ [][NextCompare]_vars

\* The number of rows of the list with the given trimmed values under the headers.
rowsWith(rows, headers, values) ==
    Cardinality({ n \in DOMAIN rows : valuesUnder(rows[n], headers) = values })

monus(a, b) == IF a > b THEN a - b ELSE 0

\* onlyInLeft and onlyInRight are the multiset difference, each way, of the two
\* decoded tables keyed by the trimmed values under the headers.
multisetDifference(L, R, headers) ==
    \A values \in { valuesUnder(L.rows[n], headers) : n \in DOMAIN L.rows }
                  \cup { valuesUnder(R.rows[n], headers) : n \in DOMAIN R.rows } :
        /\ rowsWith(call.ret.onlyInLeft, headers, values)
              = monus(rowsWith(L.rows, headers, values), rowsWith(R.rows, headers, values))
        /\ rowsWith(call.ret.onlyInRight, headers, values)
              = monus(rowsWith(R.rows, headers, values), rowsWith(L.rows, headers, values))

balanced(L, R) ==
    /\ call.left = call.right => (call.ret.onlyInLeft = << >> /\ call.ret.onlyInRight = << >>)
    /\ Len(L.rows) - Len(call.ret.onlyInLeft) = Len(R.rows) - Len(call.ret.onlyInRight)

nonBlankHeaders(table) == SelectSeq(table.headers, LAMBDA h : h # << >>)

\* The headers the rows are keyed by: the non-blank left headers that are also
\* right headers or, when there is none, all non-blank headers of both sides.
keyHeaders(L, R) ==
    IF \E i \in DOMAIN L.headers : L.headers[i] # << >> /\ L.headers[i] \in Range(R.headers)
    THEN SelectSeq(nonBlankHeaders(L), LAMBDA h : h \in Range(R.headers))
    ELSE makeUniqueHeaders(nonBlankHeaders(L) \o nonBlankHeaders(R))

\* C16 (as the code has it): compareCsv computes the multiset symmetric difference
\* of the decoded rows keyed by their trimmed values under the non-blank headers
\* common to both sides, or under all non-blank headers of both sides when none is
\* common: for a key occurring lc times left and rc times right, onlyInLeft holds
\* max(0, lc - rc) rows with it and onlyInRight max(0, rc - lc); a text compared
\* with itself gives two empty lists, and the rows not reported are as many on
\* both sides.
TheoremC16 ==
    (call.fn = "compareCsv" /\ call.done) =>
        /\ call.ret.headers = keyHeaders(parseCsvText(call.left), parseCsvText(call.right))
        /\ multisetDifference(parseCsvText(call.left), parseCsvText(call.right), call.ret.headers)
        /\ balanced(parseCsvText(call.left), parseCsvText(call.right))

\* A comparison in which a key occurs three times on the left and once on the
\* right, and two of the left rows are reported.
WitnessC16 ==
    /\ call.fn = "compareCsv" /\ call.done
    /\ \E values \in { valuesUnder(parseCsvText(call.left).rows[n], call.ret.headers) :
                          n \in DOMAIN parseCsvText(call.left).rows } :
          /\ rowsWith(parseCsvText(call.left).rows, call.ret.headers, values) = 3
          /\ rowsWith(parseCsvText(call.right).rows, call.ret.headers, values) = 1
          /\ rowsWith(call.ret.onlyInLeft, call.ret.headers, values) = 2

\* The value of a decoded row in column i of its table.
cellUnder(table, row, i) == trim(Get(row, csvFieldKey(table.headers, i)))

\* The columns the claim keys a side by: all columns when the two header lists are
\* equal, else the columns whose header is also a header of the other side.
claimedColumns(table, other) ==
    IF table.headers = other.headers THEN DOMAIN table.headers
    ELSE { i \in DOMAIN table.headers : table.headers[i] \in Range(other.headers) }

claimedKey(table, other, row) ==
    { << table.headers[i], cellUnder(table, row, i) >> : i \in claimedColumns(table, other) }

claimedCount(table, other, rows, key) ==
    Cardinality({ n \in DOMAIN rows : claimedKey(table, other, rows[n]) = key })

\* C16 as stated: the same difference, keyed by the trimmed values of the common
\* headers, all headers when the two header lists are equal.
OriginalC16 ==
    (call.fn = "compareCsv" /\ call.done) =>
        LET L == parseCsvText(call.left)
            R == parseCsvText(call.right)
        IN  /\ \A key \in { claimedKey(L, R, L.rows[n]) : n \in DOMAIN L.rows }
                           \cup { claimedKey(R, L, R.rows[n]) : n \in DOMAIN R.rows } :
                  /\ claimedCount(L, R, call.ret.onlyInLeft, key)
                        = monus(claimedCount(L, R, L.rows, key), claimedCount(R, L, R.rows, key))
                  /\ claimedCount(R, L, call.ret.onlyInRight, key)
                        = monus(claimedCount(R, L, R.rows, key), claimedCount(L, R, L.rows, key))
            /\ balanced(L, R)

---------------------------------------------------------------------------
(* normalizeRange called on its own *)

\* The empty sheet, a sheet of one row without cells, rectangular sheets, and
\* jagged sheets whose first row is the longest, the shortest, or empty.
NormalizeGrids ==
    { << >>,
      << << >> >>,
      labelGrid(1, 1, {}, FALSE),
      labelGrid(2, GridCols, {}, FALSE),
      labelGrid(GridRows, GridCols, {}, FALSE),
      << << << "a" >>, << "b" >>, << "c" >> >>, << << "d" >> >> >>,
      << << << "a" >> >>, << << "b" >>, << "c" >>, << "d" >> >> >>,
      << << >>, << << "b" >>, << "c" >> >> >> }

\* Every range parseA1Range returns for a reference of one or two cells of the
\* first GridRows + 1 rows and GridCols + 1 columns.
ParsedRanges ==
    { parseA1Range(a1Range(r0, c0, r1, c1)) :
        r0 \in 0 .. GridRows, c0 \in 0 .. GridCols, r1 \in 0 .. GridRows, c1 \in 0 .. GridCols }
    \cup { parseA1Range(a1Cell(r, c)) : r \in 0 .. GridRows, c \in 0 .. GridCols }

InitNormalize ==
    /\ restConstructed
    /\ grid \in NormalizeGrids
    /\ call \in { [fn |-> "normalizeRange", rng |-> rng, done |-> FALSE, ret |-> NullRange] :
                     rng \in ParsedRanges }
    /\ rolesConstructed
    /\ assignConstructed

callNormalizeRange ==
    /\ call.fn = "normalizeRange"
    /\ ~call.done
    /\ call' = [call EXCEPT !.done = TRUE, !.ret = normalizeRange(call.rng, grid)]
    /\ UNCHANGED << grid, restVars >>
    /\ UNCHANGED rolesVars
    /\ UNCHANGED assignVars

NextNormalize == callNormalizeRange

SpecNormalize == InitNormalize /\ [][NextNormalize]_vars

cellInside(g, r, c) == r + 1 \in DOMAIN g /\ c + 1 \in DOMAIN g[r + 1]

everyCellInside(g, rng) ==
    \A r \in rng.r0 .. rng.r1 : \A c \in rng.c0 .. rng.c1 : cellInside(g, r, c)

isRectangular(g) == \A i \in DOMAIN g : Len(g[i]) = Len(g[1])

\* C17 as stated: on every grid, the empty and the jagged ones included, the
\* result has 0 <= r0 <= r1 <= rows - 1 and 0 <= c0 <= c1 <= cols - 1 and every
\* cell it refers to is inside the grid.
OriginalC17 ==
    (call.fn = "normalizeRange" /\ call.done) =>
        /\ 0 <= call.ret.r0 /\ call.ret.r0 <= call.ret.r1 /\ call.ret.r1 <= Len(grid) - 1
        /\ 0 <= call.ret.c0 /\ call.ret.c0 <= call.ret.c1
        /\ call.ret.c1 <= (IF grid = << >> THEN 0 ELSE Len(grid[1])) - 1
        /\ everyCellInside(grid, call.ret)

\* C17 (as the code has it): normalizeRange always returns a range, never a
\* rejection, with 0 <= r0 <= r1 and 0 <= c0 <= c1. On a grid with at least one
\* row whose first row has at least one cell, r1 <= rows - 1 and c1 <= cols - 1
\* where cols is the length of the first row; if the grid is also rectangular
\* every referenced cell is inside it, and a range that was already ordered and
\* inside the grid comes back unchanged. On a grid without rows the row bounds
\* are 0 .. 0, and when the first row has no cells the column bounds are 0 .. 0.
TheoremC17 ==
    (call.fn = "normalizeRange" /\ call.done) =>
        /\ call.ret # NullRange
        /\ 0 <= call.ret.r0 /\ call.ret.r0 <= call.ret.r1
        /\ 0 <= call.ret.c0 /\ call.ret.c0 <= call.ret.c1
        /\ call.ret.r1 <= (IF Len(grid) >= 1 THEN Len(grid) - 1 ELSE 0)
        /\ call.ret.c1 <= (IF Len(grid) >= 1 /\ Len(grid[1]) >= 1 THEN Len(grid[1]) - 1 ELSE 0)
        /\ (Len(grid) >= 1 /\ Len(grid[1]) >= 1 /\ isRectangular(grid)) =>
              /\ everyCellInside(grid, call.ret)
              /\ (call.rng.r0 <= call.rng.r1 /\ call.rng.c0 <= call.rng.c1
                  /\ cellInside(grid, call.rng.r1, call.rng.c1)) => call.ret = call.rng

\* A reversed reference reaching beyond a rectangular sheet has been ordered and
\* clamped to the sheet.
WitnessC17 ==
    /\ call.fn = "normalizeRange" /\ call.done
    /\ Len(grid) = GridRows /\ isRectangular(grid)
    /\ call.rng.r0 > call.rng.r1 /\ call.rng.c0 > call.rng.c1
    /\ call.rng.r0 = GridRows /\ call.rng.c0 = GridCols
    /\ call.ret.r1 = GridRows - 1 /\ call.ret.c1 = GridCols - 1
    /\ call.ret.r0 = call.rng.r1 /\ call.ret.c0 = call.rng.c1

---------------------------------------------------------------------------
(* parseA1Range called on its own *)

MaxRefLen == 4

RefChars == { "a", "B", "1", "0", ":", " " }

\* Every text of at most MaxRefLen characters, and longer references with more
\* than two segments.
RefTexts ==
    listsUpTo(RefChars, MaxRefLen)
    \cup { << "A", "1", ":", "B", "2", ":", "C", "3" >>,
           << "A", "1", ":", "A", "1", ":" >>,
           << "a", "1", ":", "b", "2", ":", "x" >>,
           << "A", "A", "1", "0", ":", "Z", "2" >> }

InitParse ==
    /\ restConstructed
    /\ grid = << >>
    /\ call \in { [fn |-> "parseA1Range", a1 |-> t, done |-> FALSE, ret |-> NullRange] :
                     t \in RefTexts }
    /\ rolesConstructed
    /\ assignConstructed

callParseA1Range ==
    /\ call.fn = "parseA1Range"
    /\ ~call.done
    /\ call' = [call EXCEPT !.done = TRUE, !.ret = parseA1Range(call.a1)]
    /\ UNCHANGED << grid, restVars >>
    /\ UNCHANGED rolesVars
    /\ UNCHANGED assignVars

NextParse == callParseA1Range

SpecParse == InitParse /\ [][NextParse]_vars

\* The 1-based number a run of letters stands for: A = 1 .. Z = 26, AA = 27.
RECURSIVE columnNumber(_)
columnNumber(letters) ==
    IF letters = << >> THEN 0
    ELSE 26 * columnNumber(SubSeq(letters, 1, Len(letters) - 1))
         + IndexOf(UpperLetters, letters[Len(letters)])

RECURSIVE decimalValue(_)
decimalValue(ds) ==
    IF ds = << >> THEN 0
    ELSE 10 * decimalValue(SubSeq(ds, 1, Len(ds) - 1)) + (IndexOf(Digits, ds[Len(ds)]) - 1)

\* s is k letters followed by digits that read as a row number >= 1.
isCellRefAt(s, k) ==
    /\ k >= 1 /\ k < Len(s)
    /\ \A i \in 1 .. k : IsUpper(s[i])
    /\ \A i \in (k + 1) .. Len(s) : IsDigit(s[i])
    /\ \E i \in (k + 1) .. Len(s) : s[i] # "0"

isCellRef(s) == \E k \in 1 .. Len(s) : isCellRefAt(s, k)

\* One cell reference, or exactly two separated by one colon.
isReference(s) ==
    \/ isCellRef(s)
    \/ \E i \in DOMAIN s :
          /\ s[i] = ":"
          /\ isCellRef(SubSeq(s, 1, i - 1))
          /\ isCellRef(SubSeq(s, i + 1, Len(s)))

\* C18 as stated: parseA1Range returns a range exactly when the trimmed,
\* upper-cased text is one cell reference or exactly two separated by one colon;
\* one cell gives r0 = r1 and c0 = c1; every other text, one with extra segments
\* included, gives the invalid-reference result.
OriginalC18 ==
    (call.fn = "parseA1Range" /\ call.done) =>
        /\ (call.ret # NullRange) <=> isReference(toUpperCase(trim(call.a1)))
        /\ isCellRef(toUpperCase(trim(call.a1))) =>
              (call.ret.r0 = call.ret.r1 /\ call.ret.c0 = call.ret.c1)

\* What parseA1Range accepts: texts whose first segment is a cell reference and
\* whose second segment, if there is one, is a cell reference too; segments after
\* the second are not looked at. The corners are the 0-based row and column of
\* the first and second cell.
firstSegments(s) == split(s, ":")

AcceptedC18 ==
    (call.fn = "parseA1Range" /\ call.done) =>
        LET parts == firstSegments(toUpperCase(trim(call.a1)))
        IN  /\ (call.ret # NullRange) <=>
                  /\ isCellRef(parts[1])
                  /\ Len(parts) >= 2 => isCellRef(parts[2])
            /\ (call.ret # NullRange /\ Len(parts) = 1) =>
                  (call.ret.r0 = call.ret.r1 /\ call.ret.c0 = call.ret.c1)
            /\ (call.ret # NullRange) =>
                  \E k \in 1 .. Len(parts[1]) :
                      /\ isCellRefAt(parts[1], k)
                      /\ call.ret.c0 = columnNumber(SubSeq(parts[1], 1, k)) - 1
                      /\ call.ret.r0 = decimalValue(SubSeq(parts[1], k + 1, Len(parts[1]))) - 1

---------------------------------------------------------------------------
(* Both modes run with headers named like the provenance fields *)

\* Header pairs of Object A and Object B with the extra columns that go with them.
ProvAssignHeaders ==
    { << << "A" >>, << "B" >>, << >> >>,
      << SheetRowKey, << "B" >>, << >> >>,
      << << "A" >>, SheetColKey, << >> >>,
      << << "A" >>, << "B" >>, << columnSpec(SheetRowKey, << a1Range(0, 0, GridRows - 1, 0) >>) >> >> }

\* Column specs of a Records run over the label column of a matrix sheet.
ProvColumnLists ==
    { << columnSpec(HeaderN, << NaturalARef >>) >>,
      << columnSpec(SheetRowKey, << NaturalARef >>) >>,
      << columnSpec(HeaderN, << NaturalARef >>), columnSpec(SheetRowKey, << NaturalARef >>) >>,
      << columnSpec(SheetColKey, << NaturalBRef >>) >> }

InitProv ==
    /\ grid \in MatrixGrids
    /\ \E hs \in ProvAssignHeaders :
          /\ assignAHeader = hs[1]
          /\ assignBHeader = hs[2]
          /\ assignExtraColumns = hs[3]
    /\ assignObjARange = NaturalARef
    /\ assignObjBRange = NaturalBRef
    /\ assignMatrixRange = NaturalMRef
    /\ assignMarkValues = << "X" >>
    /\ assignFilters = << >>
    /\ assignCsv = << >>
    /\ assignWarnings = << >>
    /\ assignDupCsv = << >>
    /\ assignRun = NoRun
    /\ rolesColumns \in ProvColumnLists
    /\ requiredRoleHeader = << >>
    /\ rolesFilters = << >>
    /\ rolesCsv = << >>
    /\ rolesWarnings = << >>
    /\ rolesDupCsv = << >>
    /\ rolesRun = NoRun
    /\ call = NoCall
    /\ sheetOpened(grid, "roles")

NextProv == generateRecordsCsv \/ generateAssignmentsCsv

SpecProv == InitProv /\ [][NextProv]_vars

\* The text of the sheet cell a role key stands for, under a spec over the label
\* column (row keys) or the label row (column keys).
labelOfKey(k) ==
    IF parseRoleKey(k).kind = "row" THEN trim(Cell(grid, parseRoleKey(k).idx, 0))
    ELSE trim(Cell(grid, 0, parseRoleKey(k).idx))

\* A Records run keeps its data and its provenance apart: every key with a label
\* gives a row, every row carries the index of its key as provenance, and every
\* CSV cell is a text.
recordsKeepProvenance ==
    rolesRun.ran =>
        /\ Len(rolesRun.rows) =
              Cardinality({ i \in DOMAIN rolesRun.sortedKeys : labelOfKey(rolesRun.sortedKeys[i]) # << >> })
        /\ \A i \in DOMAIN rolesRun.records :
              IF parseRoleKey(rolesRun.sortedKeys[i]).kind = "row"
              THEN sheetRowOf(rolesRun.records[i]) = parseRoleKey(rolesRun.sortedKeys[i]).idx
              ELSE sheetColOf(rolesRun.records[i]) = parseRoleKey(rolesRun.sortedKeys[i]).idx
        /\ \A i \in DOMAIN rolesRun.filtered : \A h \in Range(rolesRun.headers) :
              ~IsNum(Get(rolesRun.filtered[i], h))

\* An Assignments run keeps them apart: every output row carries the position of
\* a marked matrix cell as provenance, and every CSV cell is a text.
assignmentsKeepProvenance ==
    assignRun.ran =>
        /\ \A i \in DOMAIN assignRun.outRows :
              /\ sheetRowOf(assignRun.outRows[i]) # NoIdx
              /\ sheetColOf(assignRun.outRows[i]) # NoIdx
              /\ Cell(grid, sheetRowOf(assignRun.outRows[i]), sheetColOf(assignRun.outRows[i])) = << "X" >>
        /\ \A i \in DOMAIN assignRun.filtered : \A h \in Range(assignRun.headers) :
              ~IsNum(Get(assignRun.filtered[i], h))

\* C19 as stated: for every choice of user headers, those equal to a provenance
\* field name included, each CSV column holds only the text mapped for its header,
\* the origin indexes never appear in the CSV, no data is lost to the provenance
\* fields, and the provenance of a record is its true origin cell.
OriginalC19 == recordsKeepProvenance /\ assignmentsKeepProvenance

provenanceNamed(h) == trim(h) \in { SheetRowKey, SheetColKey }

\* The same holds whenever no header is named like a provenance field.
OrdinaryHeadersC19 ==
    /\ (\A i \in DOMAIN rolesColumns : ~provenanceNamed(rolesColumns[i].header))
          => recordsKeepProvenance
    /\ (/\ ~provenanceNamed(assignAHeader) /\ ~provenanceNamed(assignBHeader)
        /\ \A i \in DOMAIN assignExtraColumns : ~provenanceNamed(assignExtraColumns[i].header))
          => assignmentsKeepProvenance

---------------------------------------------------------------------------
(* evalOp called with the operators lt and gt *)

\* Blank texts, numbers with and without thousands separators, signs and
\* padding, ISO dates, words.
OrderedValues ==
    { << >>, << " " >>,
      << "5" >>, << "1", "0" >>, << " ", "1", "0", " " >>, << "9", "9", "9" >>,
      << "1", ",", "0", "0", "0" >>, << "-", "3" >>, << "," >>,
      << "2", "0", "2", "4", "-", "0", "1", "-", "0", "5" >>,
      << "2", "0", "2", "3", "-", "1", "2", "-", "3", "1" >>,
      << "a", "b" >>, << "B" >>, << "b" >>, << "1", "0", "a" >> }

InitOrder ==
    /\ restConstructed
    /\ grid = << >>
    /\ call \in { [fn |-> "evalOp", left |-> l, op |-> op, right |-> r, done |-> FALSE, ret |-> FALSE] :
                     l \in OrderedValues, op \in { "lt", "gt" }, r \in OrderedValues }
    /\ rolesConstructed
    /\ assignConstructed

callEvalOp ==
    /\ call.fn = "evalOp"
    /\ ~call.done
    /\ call' = [call EXCEPT !.done = TRUE, !.ret = evalOp(call.left, call.op, call.right)]
    /\ UNCHANGED << grid, restVars >>
    /\ UNCHANGED rolesVars
    /\ UNCHANGED assignVars

NextOrder == callEvalOp

SpecOrder == InitOrder /\ [][NextOrder]_vars

withoutSeparators(t) == SelectSeq(t, LAMBDA ch : ch # ",")

unsigned(t) == IF t # << >> /\ t[1] \in { "-", "+" } THEN SubSeq(t, 2, Len(t)) ELSE t

\* A trimmed text reads as a number once its separators are removed: nothing is
\* left (the number 0), or an optionally signed run of digits.
readsAsNumber(t) ==
    \/ withoutSeparators(t) = << >>
    \/ /\ unsigned(withoutSeparators(t)) # << >>
       /\ \A i \in DOMAIN unsigned(withoutSeparators(t)) : IsDigit(unsigned(withoutSeparators(t))[i])

numberRead(t) ==
    IF withoutSeparators(t) # << >> /\ withoutSeparators(t)[1] = "-"
    THEN 0 - decimalValue(unsigned(withoutSeparators(t)))
    ELSE decimalValue(unsigned(withoutSeparators(t)))

\* A trimmed text reads as a date: YYYY-MM-DD with a month and a day.
readsAsDate(t) ==
    /\ Len(t) = 10 /\ t[5] = "-" /\ t[8] = "-"
    /\ \A i \in { 1, 2, 3, 4, 6, 7, 9, 10 } : IsDigit(t[i])
    /\ decimalValue(SubSeq(t, 6, 7)) \in 1 .. 12
    /\ decimalValue(SubSeq(t, 9, 10)) \in 1 .. 31

\* a is an earlier day than b.
earlier(a, b) ==
    LET ya == decimalValue(SubSeq(a, 1, 4))
        yb == decimalValue(SubSeq(b, 1, 4))
        ma == decimalValue(SubSeq(a, 6, 7))
        mb == decimalValue(SubSeq(b, 6, 7))
        da == decimalValue(SubSeq(a, 9, 10))
        db == decimalValue(SubSeq(b, 9, 10))
    IN  ya < yb \/ (ya = yb /\ ma < mb) \/ (ya = yb /\ ma = mb /\ da < db)

\* a comes before b: as numbers if both read as numbers, else as days if both
\* read as dates, else in the order of the texts.
comesBefore(a, b) ==
    IF readsAsNumber(a) /\ readsAsNumber(b) THEN numberRead(a) < numberRead(b)
    ELSE IF readsAsDate(a) /\ readsAsDate(b) THEN earlier(a, b)
    ELSE localeCompare(a, b) < 0

\* C20: with either side empty after trimming, lt and gt both fail; otherwise lt
\* holds exactly when the left value comes before the right one and gt exactly
\* when the right one comes before the left one, where two values that both read
\* as numbers once the thousands separators are removed are compared as numbers,
\* else two values that both read as dates by day, else the texts in collation
\* order; at most one of lt and gt holds, and neither when the values are equal.
TheoremC20 ==
    (call.fn = "evalOp" /\ call.done) =>
        LET a  == trim(call.left)
            b  == trim(call.right)
            lt == evalOp(call.left, "lt", call.right)
            gt == evalOp(call.left, "gt", call.right)
        IN  /\ call.ret = (IF call.op = "lt" THEN lt ELSE gt)
            /\ (a = << >> \/ b = << >>) => (~lt /\ ~gt)
            /\ (a # << >> /\ b # << >>) => (lt = comesBefore(a, b) /\ gt = comesBefore(b, a))
            /\ ~(lt /\ gt)
            /\ (a = b) => (~lt /\ ~gt)

\* 999 is less than 1,000 although the text "1,000" sorts before "999".
WitnessC20 ==
    /\ call.fn = "evalOp" /\ call.done /\ call.op = "lt"
    /\ call.left = << "9", "9", "9" >>
    /\ call.right = << "1", ",", "0", "0", "0" >>
    /\ call.ret = TRUE
    /\ localeCompare(call.right, call.left) < 0

---------------------------------------------------------------------------
(* The page: workbook, wizard steps, template, compare *)

\* setRolesCsv(""), setAssignCsv(""), ... of loadSheet and applyTemplate.
clearGenerated ==
    /\ rolesCsv' = << >>
    /\ assignCsv' = << >>
    /\ rolesWarnings' = << >>
    /\ assignWarnings' = << >>
    /\ rolesDupCsv' = << >>
    /\ assignDupCsv' = << >>
    /\ compareSummary' = << >>
    /\ compareReportTxt' = << >>
    /\ rolesRun' = NoRun
    /\ assignRun' = NoRun

sheetIndex(wb, name) == CHOOSE i \in DOMAIN wb.SheetNames : wb.SheetNames[i] = name

padRow(r, maxCols) == r \o [i \in 1 .. (maxCols - Len(r)) |-> << >>]

RECURSIVE maxLen(_)
maxLen(rows) == IF rows = << >> THEN 0 ELSE Max(Len(Head(rows)), maxLen(Tail(rows)))

\* One merged area: its empty cells take the text of its top left cell.
fillMerge(normalized, m) ==
    [i \in DOMAIN normalized |->
        [j \in DOMAIN normalized[i] |->
            IF /\ i - 1 >= m.r0 /\ i - 1 <= m.r1 /\ j - 1 >= m.c0 /\ j - 1 <= m.c1
               /\ normalized[i][j] = << >>
            THEN Cell(normalized, m.r0, m.c0)
            ELSE normalized[i][j]]]

RECURSIVE fillMerges(_, _)
fillMerges(normalized, merges) ==
    IF merges = << >> THEN normalized
    ELSE fillMerges(fillMerge(normalized, Head(merges)), Tail(merges))

\* The grid loadSheet builds from worksheet ws.
normalizedSheet(ws) ==
    fillMerges([i \in DOMAIN ws.rows |-> padRow(ws.rows[i], maxLen(ws.rows))], ws.merges)

loadSheet(wb, name) ==
    /\ grid' = normalizedSheet(wb.Sheets[sheetIndex(wb, name)])
    /\ sheetName' = name
    /\ clearGenerated

(* JSON values: [t |-> type, v |-> value]; an object's value is a record of
   JSON values, an array's a sequence of them, a string's its characters. *)
JNull == [t |-> "null", v |-> << >>]
JNum(n) == [t |-> "num", v |-> << n >>]
JStr(str) == [t |-> "str", v |-> str]
JArr(seq) == [t |-> "arr", v |-> seq]
JObj(fields) == [t |-> "obj", v |-> fields]

\* typeof t.f === "string", Array.isArray(t.f)
hasField(t, f, type) == t.t = "obj" /\ f \in DOMAIN t.v /\ t.v[f].t = type

isStrings(j) == j.t = "arr" /\ \A i \in DOMAIN j.v : j.v[i].t = "str"

stringsOf(j) == [i \in DOMAIN j.v |-> j.v[i].v]

\* An element of a parsed array as the page holds it: a column spec or a filter
\* when it has that shape, else the parsed value itself.
asColumnSpec(e) ==
    IF hasField(e, "header", "str") /\ hasField(e, "rangesA1", "arr") /\ isStrings(e.v.rangesA1)
    THEN [header |-> e.v.header.v, rangesA1 |-> stringsOf(e.v.rangesA1)]
    ELSE e

\* A filter's source and op are kept as the names the model uses for them;
\* "other" and "bogus" stand for every text that is no known source or operator.
asFilter(e) ==
    IF /\ hasField(e, "source", "str") /\ hasField(e, "field", "str")
       /\ hasField(e, "sheetRangeA1", "str") /\ hasField(e, "op", "str")
       /\ hasField(e, "value", "str")
    THEN [source |-> IF e.v.source.v = << "s", "h", "e", "e", "t" >> THEN "sheet"
                     ELSE IF e.v.source.v = << "o", "u", "t", "p", "u", "t" >> THEN "output"
                     ELSE "other",
          field |-> e.v.field.v, sheetRangeA1 |-> e.v.sheetRangeA1.v,
          op |-> IF e.v.op.v = << "e", "q" >> THEN "eq"
                 ELSE IF e.v.op.v = << "l", "i", "k", "e" >> THEN "like" ELSE "bogus",
          value |-> e.v.value.v]
    ELSE e

ModeRoles == << "r", "o", "l", "e", "s" >>
ModeAssignments == << "a", "s", "s", "i", "g", "n", "m", "e", "n", "t", "s" >>

\* stringField blanking an item whose field is missing or of another type.
stringFieldOrBlank(t, f, cur) == IF hasField(t, f, "str") THEN t.v[f].v ELSE << >>

\* The value a known field of template t sets, or the current value cur.
stringField(t, f, cur) == IF hasField(t, f, "str") THEN t.v[f].v ELSE cur

specsField(t, f, cur) ==
    IF hasField(t, f, "arr") THEN [i \in DOMAIN t.v[f].v |-> asColumnSpec(t.v[f].v[i])] ELSE cur

filtersField(t, f, cur) ==
    IF hasField(t, f, "arr") THEN [i \in DOMAIN t.v[f].v |-> asFilter(t.v[f].v[i])] ELSE cur

\* applyTemplate(t) for a t that is not null; wb is the workbook of the render
\* whose applyTemplate is called.
applyTemplate(t, wb) ==
    /\ mode' = IF hasField(t, "mode", "str") /\ t.v.mode.v = ModeRoles THEN "roles"
               ELSE IF hasField(t, "mode", "str") /\ t.v.mode.v = ModeAssignments
               THEN "assignments" ELSE mode
    /\ rolesColumns' = specsField(t, "rolesColumns", rolesColumns)
    /\ requiredRoleHeader' = stringField(t, "requiredRoleHeader", requiredRoleHeader)
    /\ rolesFilters' = filtersField(t, "rolesFilters", rolesFilters)
    /\ assignAHeader' = stringField(t, "assignAHeader", assignAHeader)
    /\ assignBHeader' = stringField(t, "assignBHeader", assignBHeader)
    /\ assignObjARange' = stringField(t, "assignObjARange", assignObjARange)
    /\ assignObjBRange' = stringField(t, "assignObjBRange", assignObjBRange)
    /\ assignMatrixRange' = stringField(t, "assignMatrixRange", assignMatrixRange)
    /\ assignMarkValues' = stringField(t, "assignMarkValues", assignMarkValues)
    /\ assignExtraColumns' = specsField(t, "assignExtraColumns", assignExtraColumns)
    /\ assignFilters' = filtersField(t, "assignFilters", assignFilters)
    /\ templateSheetToLoadRef' = stringField(t, "sheetName", templateSheetToLoadRef)
    /\ IF /\ hasField(t, "sheetName", "str") /\ ~wb.isNull
          /\ t.v.sheetName.v \in Range(wb.SheetNames)
       THEN loadSheet(wb, t.v.sheetName.v)
       ELSE /\ clearGenerated
            /\ UNCHANGED << grid, sheetName >>

\* The reader at position i has delivered its load event.
readersWithout(i) == SubSeq(readers, 1, i - 1) \o SubSeq(readers, i + 1, Len(readers))

\* onImportTemplate(file): the read of the file starts; parsed is what JSON.parse
\* makes of its text, NotJson when it throws.
NotJson == [t |-> "invalid", v |-> << >>]

onImportTemplate(parsed) ==
    /\ readers' = Append(readers, [kind |-> "template", parsed |-> parsed, workbook |-> workbook])
    /\ UNCHANGED << uploadVars, grid, call, step, compareSummary, compareReportTxt, workbook, sheetName,
                    mode, templateSheetToLoadRef, alerted >>
    /\ UNCHANGED rolesVars
    /\ UNCHANGED assignVars

\* onImportTemplateLoad clearing the generated outputs when the import fails.
onImportTemplateLoadClearing(i) ==
    /\ readers[i].kind = "template"
    /\ readers' = readersWithout(i)
    /\ IF readers[i].parsed = NotJson \/ readers[i].parsed = JNull
       THEN /\ alerted' = "Could not import template JSON. Please verify the file."
            /\ clearGenerated
            /\ UNCHANGED << grid, sheetName, mode, templateSheetToLoadRef >>
            /\ UNCHANGED << rolesColumns, requiredRoleHeader, rolesFilters >>
            /\ UNCHANGED assignConfigVars
       ELSE /\ applyTemplate(readers[i].parsed, readers[i].workbook)
            /\ UNCHANGED alerted
    /\ UNCHANGED << uploadVars, call, step, workbook >>

\* reader.onload of onImportTemplate
onImportTemplateLoad(i) ==
    /\ readers[i].kind = "template"
    /\ readers' = readersWithout(i)
    /\ IF readers[i].parsed = NotJson \/ readers[i].parsed = JNull
       THEN /\ alerted' = "Could not import template JSON. Please verify the file."
            /\ UNCHANGED << grid, compareSummary, compareReportTxt, sheetName, mode,
                            templateSheetToLoadRef >>
            /\ UNCHANGED rolesVars
            /\ UNCHANGED assignVars
       ELSE /\ applyTemplate(readers[i].parsed, readers[i].workbook)
            /\ UNCHANGED alerted
    /\ UNCHANGED << uploadVars, call, step, workbook >>

\* onFile(file): the read of the file starts; data is what XLSX.read makes of it,
\* NoWorkbook when the file has no data.
onFile(data) ==
    /\ readers' = Append(readers, [kind |-> "workbook", data |-> data])
    /\ UNCHANGED << uploadVars, grid, call, step, compareSummary, compareReportTxt, workbook, sheetName,
                    mode, templateSheetToLoadRef, alerted >>
    /\ UNCHANGED rolesVars
    /\ UNCHANGED assignVars

sheetToLoad(wb, desired) ==
    IF desired # << >> /\ desired \in Range(wb.SheetNames) THEN desired
    ELSE IF wb.SheetNames # << >> THEN wb.SheetNames[1] ELSE << >>

\* reader.onload of onFile
onFileLoad(i) ==
    /\ readers[i].kind = "workbook"
    /\ readers' = readersWithout(i)
    /\ IF readers[i].data.isNull
       THEN /\ UNCHANGED << grid, step, compareSummary, compareReportTxt, workbook, sheetName >>
            /\ UNCHANGED << rolesCsv, rolesWarnings, rolesDupCsv, rolesRun >>
            /\ UNCHANGED << assignCsv, assignWarnings, assignDupCsv, assignRun >>
       ELSE /\ workbook' = readers[i].data
            /\ IF sheetToLoad(readers[i].data, trim(templateSheetToLoadRef)) # << >>
               THEN /\ loadSheet(readers[i].data,
                                 sheetToLoad(readers[i].data, trim(templateSheetToLoadRef)))
                    /\ step' = 1
               ELSE /\ sheetName' = << >>
                    /\ grid' = << >>
                    /\ step' = 0
                    /\ UNCHANGED << compareSummary, compareReportTxt >>
                    /\ UNCHANGED << rolesCsv, rolesWarnings, rolesDupCsv, rolesRun >>
                    /\ UNCHANGED << assignCsv, assignWarnings, assignDupCsv, assignRun >>
    /\ UNCHANGED << rolesColumns, requiredRoleHeader, rolesFilters >>
    /\ UNCHANGED assignConfigVars
    /\ UNCHANGED << uploadVars, call, mode, templateSheetToLoadRef, alerted >>

\* onChange of the sheet select
onChangeSheet(name) ==
    /\ loadSheet(workbook, name)
    /\ UNCHANGED << rolesColumns, requiredRoleHeader, rolesFilters >>
    /\ UNCHANGED assignConfigVars
    /\ UNCHANGED << uploadVars, call, step, workbook, mode, templateSheetToLoadRef, readers, alerted >>

\* onClick of the two mode buttons
setMode(m) ==
    /\ mode' = m
    /\ UNCHANGED << uploadVars, grid, call, step, compareSummary, compareReportTxt, workbook, sheetName,
                    templateSheetToLoadRef, readers, alerted >>
    /\ UNCHANGED rolesVars
    /\ UNCHANGED assignVars

\* onChange of the range input ri of column spec ci (both 1-based here)
onChangeRolesRange(ci, ri, value) ==
    /\ rolesColumns' = [rolesColumns EXCEPT ![ci].rangesA1[ri] = value]
    /\ UNCHANGED << requiredRoleHeader, rolesFilters, rolesCsv, rolesWarnings, rolesDupCsv,
                    rolesRun >>
    /\ UNCHANGED << grid, call, restVars >>
    /\ UNCHANGED assignVars

canGoNext ==
    IF step = 0 THEN ~workbook.isNull
    ELSE IF step = 1 THEN ~workbook.isNull /\ sheetName # << >> /\ Len(grid) > 0
    ELSE IF step = 2
    THEN (IF mode = "roles" THEN \E i \in DOMAIN rolesColumns : trim(rolesColumns[i].header) # << >>
          ELSE trim(assignAHeader) # << >> /\ trim(assignBHeader) # << >>)
    ELSE IF step = 3
    THEN (IF mode = "roles"
          THEN \E i \in DOMAIN rolesColumns : \E j \in DOMAIN rolesColumns[i].rangesA1 :
                  trim(rolesColumns[i].rangesA1[j]) # << >>
          ELSE /\ trim(assignObjARange) # << >> /\ trim(assignObjBRange) # << >>
               /\ trim(assignMatrixRange) # << >>)
    ELSE TRUE

\* setStep of the Back and Next buttons
setStep(s) ==
    /\ step' = s
    /\ UNCHANGED << uploadVars, grid, call, compareSummary, compareReportTxt, workbook, sheetName, mode,
                    templateSheetToLoadRef, readers, alerted >>
    /\ UNCHANGED rolesVars
    /\ UNCHANGED assignVars

\* onCompareCsvFile(file): current is captured and the read of the file starts;
\* other is the text of the file.
onCompareCsvFile(other) ==
    /\ IF (IF mode = "roles" THEN rolesCsv ELSE assignCsv) = << >>
       THEN /\ alerted' = "Generate a CSV first, then compare."
            /\ UNCHANGED readers
       ELSE /\ readers' = Append(readers, [kind |-> "compare", other |-> other,
                                           current |-> IF mode = "roles" THEN rolesCsv ELSE assignCsv])
            /\ UNCHANGED alerted
    /\ UNCHANGED << uploadVars, grid, call, step, compareSummary, compareReportTxt, workbook, sheetName,
                    mode, templateSheetToLoadRef >>
    /\ UNCHANGED rolesVars
    /\ UNCHANGED assignVars

maxList == 200

firstRows(rows) == SubSeq(rows, 1, Min(Len(rows), maxList))

renderRow(r, headers) == [i \in DOMAIN headers |-> << headers[i], trim(toString(Get(r, headers[i]))) >>]

\* The lines of the report, as their parts.
reportOf(res) ==
    [summary |-> res.summary,
     headers |-> res.headers,
     onlyInLeft |-> [i \in DOMAIN firstRows(res.onlyInLeft) |-> renderRow(res.onlyInLeft[i], res.headers)],
     leftMore |-> Max(0, Len(res.onlyInLeft) - maxList),
     onlyInRight |-> [i \in DOMAIN firstRows(res.onlyInRight) |-> renderRow(res.onlyInRight[i], res.headers)],
     rightMore |-> Max(0, Len(res.onlyInRight) - maxList)]

setCompareResults(res) ==
    /\ compareSummary' = << res.summary >>
    /\ compareReportTxt' = << reportOf(res) >>

\* reader.onload of onCompareCsvFile
onCompareCsvFileLoad(i) ==
    /\ readers[i].kind = "compare"
    /\ readers' = readersWithout(i)
    /\ setCompareResults(compareCsv(readers[i].current, readers[i].other))
    /\ UNCHANGED << uploadVars, grid, call, step, workbook, sheetName, mode, templateSheetToLoadRef, alerted >>
    /\ UNCHANGED rolesVars
    /\ UNCHANGED assignVars

---------------------------------------------------------------------------
(* The page driven through its controls *)

MaxReaders == 1

Sheet2 == << "S", "2" >>

\* S1 is a 2 x 2 relationship matrix with R1 marked for E1. S2 comes with a
\* short second row and A2:B2 merged, and has no mark.
PageBook ==
    [SheetNames |-> << Sheet1, Sheet2 >>,
     Sheets |-> << worksheet(<< << << >>, << "E", "1" >> >>, << << "R", "1" >>, << "X" >> >> >>, << >>),
                   worksheet(<< << << >>, << "E", "1" >> >>, << << "R", "2" >> >> >>,
                             << [r0 |-> 1, c0 |-> 0, r1 |-> 1, c1 |-> 1] >>) >>,
     isNull |-> FALSE]

\* A workbook without sheets.
EmptyBook == [SheetNames |-> << >>, Sheets |-> << >>, isNull |-> FALSE]

\* What the read of a picked Excel file delivers.
WorkbookFiles == { PageBook, EmptyBook, NoWorkbook }

LabelCellRef == << "A", "2" >>

\* A template as onSaveTemplate writes it, for the sheets of PageBook.
savedTemplate(m, sheet) ==
    JObj([version |-> JNum(1),
          mode |-> JStr(m),
          rolesColumns |-> JArr(<< JObj([header |-> JStr(HeaderN),
                                        rangesA1 |-> JArr(<< JStr(LabelCellRef) >>)]) >>),
          requiredRoleHeader |-> JStr(HeaderN),
          rolesFilters |-> JArr(<< >>),
          assignAHeader |-> JStr(<< "A" >>),
          assignBHeader |-> JStr(<< "B" >>),
          assignObjARange |-> JStr(LabelCellRef),
          assignObjBRange |-> JStr(<< "B", "1" >>),
          assignMatrixRange |-> JStr(<< "B", "2" >>),
          assignMarkValues |-> JStr(<< "X" >>),
          assignExtraColumns |-> JArr(<< >>),
          assignFilters |-> JArr(<< >>),
          sheetName |-> JStr(sheet)])

\* What JSON.parse makes of a picked template file.
PageTemplates ==
    { savedTemplate(ModeRoles, Sheet1), savedTemplate(ModeAssignments, Sheet2), NotJson }

\* The texts of the CSV files picked for a comparison.
OtherCsvTexts ==
    { << "N", "\n", "R", "1" >>, << "N", "\n", "R", "9", "\n", "R", "8" >> }

\* Every column spec and filter has the shape the render and the runs read.
isColumnSpec(c) == DOMAIN c = { "header", "rangesA1" }
isFilter(f) == DOMAIN f = { "source", "field", "sheetRangeA1", "op", "value" }

rendersConfig ==
    /\ \A i \in DOMAIN rolesColumns : isColumnSpec(rolesColumns[i])
    /\ \A i \in DOMAIN assignExtraColumns : isColumnSpec(assignExtraColumns[i])
    /\ \A i \in DOMAIN rolesFilters : isFilter(rolesFilters[i])
    /\ \A i \in DOMAIN assignFilters : isFilter(assignFilters[i])

InitPage ==
    /\ grid = << >>
    /\ rolesConstructed
    /\ assignConstructed
    /\ call = NoCall
    /\ restConstructed

pickTemplate ==
    /\ step = 0 /\ Len(readers) < MaxReaders
    /\ \E parsed \in PageTemplates : onImportTemplate(parsed)

pickWorkbook ==
    /\ step = 0 /\ Len(readers) < MaxReaders
    /\ \E data \in WorkbookFiles : onFile(data)

pickSheet ==
    /\ step = 1 /\ ~workbook.isNull
    /\ \E name \in Range(workbook.SheetNames) : onChangeSheet(name)

pickMode == step = 2 /\ \E m \in { "roles", "assignments" } : setMode(m)

editRolesRange ==
    /\ step = 3 /\ mode = "roles" /\ rolesColumns # << >>
    /\ \E value \in { LabelCellRef, << "B", "1" >> } : onChangeRolesRange(1, 1, value)

clickBack == step > 0 /\ setStep(step - 1)

clickNext == step < 4 /\ canGoNext /\ setStep(step + 1)

clickGenerateRecords == step = 4 /\ mode = "roles" /\ generateRecordsCsv

clickGenerateAssignments == step = 4 /\ mode = "assignments" /\ generateAssignmentsCsv

pickCompareCsv ==
    /\ step = 4 /\ Len(readers) < MaxReaders
    /\ (IF mode = "roles" THEN rolesCsv ELSE assignCsv) # << >>
    /\ \E other \in OtherCsvTexts : onCompareCsvFile(other)

templateLoads == \E i \in DOMAIN readers : onImportTemplateLoad(i)

workbookLoads == \E i \in DOMAIN readers : onFileLoad(i)

compareLoads == \E i \in DOMAIN readers : onCompareCsvFileLoad(i)

NextPage ==
    \/ pickTemplate
    \/ pickWorkbook
    \/ pickSheet
    \/ pickMode
    \/ editRolesRange
    \/ clickBack
    \/ clickNext
    \/ clickGenerateRecords
    \/ clickGenerateAssignments
    \/ pickCompareCsv
    \/ templateLoads
    \/ workbookLoads
    \/ compareLoads

SpecPage == InitPage /\ [][NextPage]_vars

comparePending == \E i \in DOMAIN readers : readers[i].kind = "compare"

\* C21 as stated: between the moment a compare run captures the generated CSV
\* and the moment it stores its summary and report no other action happens: while
\* a compare run is under way, the only step the page takes is that run storing
\* its results.
OriginalC21 ==
    [][comparePending =>
          /\ ~comparePending'
          /\ compareSummary' # << >>
          /\ UNCHANGED << grid, step, mode, workbook, sheetName, rolesCsv, assignCsv >>]_vars

\* The part of C21 that holds: what a compare run stores is the comparison of
\* the CSV it captured when it started, whatever happened in between, and the
\* two generation runs are single steps.
CapturedC21 ==
    [][\A i \in DOMAIN readers :
          (readers[i].kind = "compare" /\ readers' = readersWithout(i)) =>
              compareSummary' = << compareCsv(readers[i].current, readers[i].other).summary >>]_vars

---------------------------------------------------------------------------
(* Template imports of any content *)

jsonFilter(op) ==
    JObj([id |-> JStr(<< "f", "1" >>), source |-> JStr(<< "o", "u", "t", "p", "u", "t" >>),
          field |-> JStr(HeaderN), sheetRangeA1 |-> JStr(<< >>), op |-> JStr(op),
          value |-> JStr(<< "R" >>)])

\* Texts that are no JSON, JSON that is no object, objects with unknown fields
\* only, with every known field, with known fields of the wrong type next to a
\* good one, with a sheet name only, and arrays whose elements are no specs or
\* filters.
TemplateDocs ==
    { NotJson,
      JNull,
      JNum(5),
      JArr(<< >>),
      JObj([comment |-> JStr(<< "x" >>)]),
      savedTemplate(ModeRoles, Sheet1),
      JObj([mode |-> JStr(<< "b", "o", "t", "h" >>), requiredRoleHeader |-> JNum(3),
            rolesColumns |-> JStr(<< "x" >>), assignAHeader |-> JStr(LabelCellRef),
            assignFilters |-> JNull, sheetName |-> JNum(2)]),
      JObj([mode |-> JStr(ModeAssignments)]),
      JObj([sheetName |-> JStr(Sheet2)]),
      JObj([sheetName |-> JStr(<< "S", "9" >>)]),
      JObj([rolesFilters |-> JArr(<< jsonFilter(<< "l", "i", "k", "e" >>) >>)]),
      JObj([rolesFilters |-> JArr(<< jsonFilter(<< "r", "e", "g", "e", "x" >>) >>)]),
      JObj([rolesColumns |-> JArr(<< JNum(5) >>)]),
      JObj([assignExtraColumns |-> JArr(<< JObj([header |-> JStr(HeaderM)]) >>)]) }

InitTemplate ==
    /\ grid = << >>
    /\ rolesConstructed
    /\ assignConstructed
    /\ call = NoCall
    /\ restConstructed

\* The page takes part in nothing once a render has thrown.
pickTemplateDoc ==
    /\ rendersConfig
    /\ step = 0 /\ Len(readers) < MaxReaders
    /\ \E parsed \in TemplateDocs : onImportTemplate(parsed)

pickPageBook ==
    /\ rendersConfig
    /\ step = 0 /\ Len(readers) < MaxReaders
    /\ onFile(PageBook)

NextTemplate ==
    \/ pickTemplateDoc
    \/ pickPageBook
    \/ rendersConfig /\ templateLoads
    \/ rendersConfig /\ workbookLoads
    \/ rendersConfig /\ clickBack
    \/ rendersConfig /\ clickNext
    \/ rendersConfig /\ clickGenerateRecords
    \/ rendersConfig /\ clickGenerateAssignments

SpecTemplate == InitTemplate /\ [][NextTemplate]_vars

\* Template t supplies field f with a value of the given JSON type.
supplies(t, f, type) == t.t = "obj" /\ f \in DOMAIN t.v /\ t.v[f].t = type

\* The import of the reader at position i has been applied in this step.
applied(i) ==
    /\ readers[i].kind = "template"
    /\ readers' = readersWithout(i)
    /\ readers[i].parsed # NotJson /\ readers[i].parsed # JNull

replacedOrKept(t, f, type, old, new) ==
    IF supplies(t, f, type) THEN (type = "str" => new = t.v[f].v) /\ (type = "arr" => Len(new) = Len(t.v[f].v))
    ELSE new = old

\* C22: applying a template that parsed to anything but null replaces exactly
\* the configuration items whose field is present with the expected type (a
\* string, an array, or one of the two mode names) and leaves every other item
\* as it was; unknown fields change nothing; the workbook stays, and the grid and
\* sheet name stay unless the template names a sheet of the workbook the page had
\* when the import was started.
TheoremC22 ==
    [][\A i \in DOMAIN readers : applied(i) =>
          LET t == readers[i].parsed
          IN  /\ mode' = (IF supplies(t, "mode", "str") /\ t.v.mode.v = ModeRoles THEN "roles"
                          ELSE IF supplies(t, "mode", "str") /\ t.v.mode.v = ModeAssignments
                          THEN "assignments" ELSE mode)
              /\ replacedOrKept(t, "rolesColumns", "arr", rolesColumns, rolesColumns')
              /\ replacedOrKept(t, "requiredRoleHeader", "str", requiredRoleHeader, requiredRoleHeader')
              /\ replacedOrKept(t, "rolesFilters", "arr", rolesFilters, rolesFilters')
              /\ replacedOrKept(t, "assignAHeader", "str", assignAHeader, assignAHeader')
              /\ replacedOrKept(t, "assignBHeader", "str", assignBHeader, assignBHeader')
              /\ replacedOrKept(t, "assignObjARange", "str", assignObjARange, assignObjARange')
              /\ replacedOrKept(t, "assignObjBRange", "str", assignObjBRange, assignObjBRange')
              /\ replacedOrKept(t, "assignMatrixRange", "str", assignMatrixRange, assignMatrixRange')
              /\ replacedOrKept(t, "assignMarkValues", "str", assignMarkValues, assignMarkValues')
              /\ replacedOrKept(t, "assignExtraColumns", "arr", assignExtraColumns, assignExtraColumns')
              /\ replacedOrKept(t, "assignFilters", "arr", assignFilters, assignFilters')
              /\ UNCHANGED << workbook, step >>
              /\ (~(supplies(t, "sheetName", "str")
                    /\ t.v.sheetName.v \in Range(readers[i].workbook.SheetNames)))
                    => UNCHANGED << grid, sheetName >>]_vars

\* A template with one good field among fields of the wrong type has been applied
\* to a page whose sheet is loaded: that one item is replaced, the others, the
\* mode and the grid are as before.
WitnessC22 ==
    /\ assignAHeader = LabelCellRef
    /\ requiredRoleHeader = RoleNameHeader
    /\ rolesColumns = << [header |-> RoleNameHeader, rangesA1 |-> << << >> >>] >>
    /\ assignFilters = << >>
    /\ mode = "roles"
    /\ grid # << >>
    /\ readers = << >>

failed(i) ==
    /\ readers[i].kind = "template"
    /\ readers' = readersWithout(i)
    /\ (readers[i].parsed = NotJson \/ readers[i].parsed = JNull)

\* C23: a template import whose content is no JSON, or is JSON null, is reported
\* with an alert and changes nothing else: mode, column specs, filters, ranges,
\* grid, sheet name, workbook, step and every generated output keep their values.
TheoremC23 ==
    [][\A i \in DOMAIN readers : failed(i) =>
          /\ alerted' = "Could not import template JSON. Please verify the file."
          /\ UNCHANGED << grid, step, compareSummary, compareReportTxt, workbook, sheetName,
                          mode, templateSheetToLoadRef >>
          /\ UNCHANGED rolesVars
          /\ UNCHANGED assignVars]_vars

\* A failed import has been reported on a page that holds a loaded sheet and a
\* generated Records CSV.
WitnessC23 ==
    /\ alerted = "Could not import template JSON. Please verify the file."
    /\ rolesCsv # << >>
    /\ grid # << >>
    /\ readers = << >>

---------------------------------------------------------------------------
(* Assignments runs with extra columns *)

HeaderD == << "D" >>
HeaderE == << "E" >>

LabelColumnRef == a1Range(0, 0, GridRows - 1, 0)
LabelRowRef == a1Range(0, 0, 0, GridCols - 1)

\* One or two extra columns, repeated headers, two ranges in one column, and
\* specs with a blank header before, between and after the others.
ExtraColumnLists ==
    { << columnSpec(HeaderD, << LabelColumnRef >>) >>,
      << columnSpec(HeaderD, << LabelColumnRef >>), columnSpec(HeaderE, << LabelRowRef >>) >>,
      << columnSpec(HeaderD, << LabelColumnRef >>), columnSpec(HeaderD, << LabelRowRef >>) >>,
      << columnSpec(HeaderD, << LabelColumnRef, LabelRowRef >>) >>,
      << columnSpec(HeaderD, << LabelColumnRef >>), columnSpec(<< " " >>, << LabelRowRef >>) >>,
      << columnSpec(<< >>, << LabelRowRef >>), columnSpec(HeaderD, << LabelColumnRef >>) >>,
      << columnSpec(<< >>, << LabelRowRef >>), columnSpec(HeaderD, << LabelColumnRef >>),
         columnSpec(HeaderE, << LabelRowRef >>) >>,
      << columnSpec(HeaderD, << LabelColumnRef >>), columnSpec(<< >>, << LabelRowRef >>),
         columnSpec(HeaderE, << LabelRowRef >>) >> }

InitExtra ==
    /\ grid \in MatrixGrids
    /\ assignAHeader = << "A" >>
    /\ assignBHeader = << "B" >>
    /\ assignObjARange = NaturalARef
    /\ assignObjBRange = NaturalBRef
    /\ assignMatrixRange = NaturalMRef
    /\ assignMarkValues = << "X" >>
    /\ assignExtraColumns \in ExtraColumnLists
    /\ assignFilters = << >>
    /\ assignCsv = << >>
    /\ assignWarnings = << >>
    /\ assignDupCsv = << >>
    /\ assignRun = NoRun
    /\ rolesConstructed
    /\ call = NoCall
    /\ sheetOpened(grid, "assignments")

NextExtra == generateAssignmentsCsv

SpecExtra == InitExtra /\ [][NextExtra]_vars

\* The number of specs with a non-blank header among the first k.
namedUpTo(specs, k) == Cardinality({ i \in 1 .. k : trim(specs[i].header) # << >> })

\* The output header of spec k: the de-duplicated header at its own place among
\* the non-blank headers, after the two base headers.
ownHeader(headers, specs, k) == headers[2 + namedUpTo(specs, k)]

\* The record's provenance alone.
provenanceOf(row) ==
    [f \in { SheetRowKey, SheetColKey } |-> row[f]]

extraColumnsFilled(specs) ==
    assignRun.ran =>
        \A n \in DOMAIN assignRun.outRows : \A k \in DOMAIN specs :
            trim(specs[k].header) # << >> =>
                Get(assignRun.outRows[n], ownHeader(assignRun.headers, specs, k))
                  = autoValueForRanges(provenanceOf(assignRun.outRows[n]), specs[k].rangesA1, grid)

\* C24 as stated: for every list of extra column specs, those with blank headers
\* among them included, every emitted record carries under each named spec's own
\* output header the space-joined non-empty trimmed values that auto alignment
\* of the spec's own ranges gives for the record's provenance cell.
OriginalC24 == extraColumnsFilled(assignExtraColumns)

\* It holds for the lists in which no blank header comes before a named spec.
NamedFirstC24 ==
    (\A k \in DOMAIN assignExtraColumns :
        trim(assignExtraColumns[k].header) # << >> => namedUpTo(assignExtraColumns, k) = k)
      => extraColumnsFilled(assignExtraColumns)

---------------------------------------------------------------------------
(* makeUniqueHeaders called on lists of headers *)

MaxHeaders == 3

\* A name, a name that already carries a suffix, padded and blank names.
HeaderNames == { << "N" >>, << "N", "_", "2" >>, << " ", "N" >>, << >>, << " " >>,
                 << "C", "o", "l", "u", "m", "n" >> }

HeaderLists == UNION { [1 .. n -> HeaderNames] : n \in 0 .. MaxHeaders }

InitUnique ==
    /\ restConstructed
    /\ grid = << >>
    /\ call \in { [fn |-> "makeUniqueHeaders", headers |-> h, done |-> FALSE, ret |-> << >>] :
                     h \in HeaderLists }
    /\ rolesConstructed
    /\ assignConstructed

callMakeUniqueHeaders ==
    /\ call.fn = "makeUniqueHeaders"
    /\ ~call.done
    /\ call' = [call EXCEPT !.done = TRUE, !.ret = makeUniqueHeaders(call.headers)]
    /\ UNCHANGED << grid, restVars >>
    /\ UNCHANGED rolesVars
    /\ UNCHANGED assignVars

NextUnique == callMakeUniqueHeaders

SpecUnique == InitUnique /\ [][NextUnique]_vars

\* The name a header stands for: trimmed, "Column" when blank.
nameOf(h) == IF trim(h) = << >> THEN << "C", "o", "l", "u", "m", "n" >> ELSE trim(h)

\* The occurrence number of the name at position i among the positions up to i.
occurrence(headers, i) == Cardinality({ j \in 1 .. i : nameOf(headers[j]) = nameOf(headers[i]) })

suffixed(headers, ret) ==
    /\ Len(ret) = Len(headers)
    /\ \A i \in DOMAIN headers :
          ret[i] = IF occurrence(headers, i) = 1 THEN nameOf(headers[i])
                   ELSE nameOf(headers[i]) \o << "_" >> \o digitsOf(occurrence(headers, i))

pairwiseDistinct(list) == \A i, j \in DOMAIN list : i # j => list[i] # list[j]

\* C25 as stated: for every input list the result has the same length, keeps the
\* first occurrence of a name, gives the n-th occurrence the suffix _n (blank
\* names counting as "Column"), and its entries are pairwise distinct.
OriginalC25 ==
    (call.fn = "makeUniqueHeaders" /\ call.done) =>
        /\ suffixed(call.headers, call.ret)
        /\ pairwiseDistinct(call.ret)

\* The suffix rule alone holds on every list.
SuffixRuleC25 ==
    (call.fn = "makeUniqueHeaders" /\ call.done) => suffixed(call.headers, call.ret)

---------------------------------------------------------------------------
(* Generated outputs and the loaded grid *)

noOutput ==
    /\ rolesCsv = << >> /\ rolesWarnings = << >> /\ rolesDupCsv = << >>
    /\ assignCsv = << >> /\ assignWarnings = << >> /\ assignDupCsv = << >>
    /\ compareSummary = << >> /\ compareReportTxt = << >>

\* The compare run of the reader at position i stores its results in this step.
compared(i) == readers[i].kind = "compare" /\ readers' = readersWithout(i)

\* C26 as stated: every non-empty output was produced from the loaded grid. A
\* step that loads a sheet or a workbook (the grid or the workbook changes) or
\* applies a template leaves every output of both modes empty, and the outputs
\* stay empty until the next generation run: no compare result is stored on a
\* page that holds no generated CSV.
OriginalC26 ==
    [][/\ (grid' # grid \/ workbook' # workbook \/ \E i \in DOMAIN readers : applied(i)) => noOutput'
       /\ (rolesCsv = << >> /\ assignCsv = << >>) => \A i \in DOMAIN readers : ~compared(i)]_vars

\* The part that holds: a step that puts a sheet's cells into the grid or applies
\* a template leaves every output empty.
SheetLoadedC26 ==
    [][((grid' # grid /\ grid' # << >>) \/ \E i \in DOMAIN readers : applied(i)) => noOutput']_vars

---------------------------------------------------------------------------
(* The displayed compare results *)

\* The generated CSV the page shows for the current mode.
displayedCsv == IF mode = "roles" THEN rolesCsv ELSE assignCsv

displays(res) ==
    /\ compareSummary = << res.summary >>
    /\ compareReportTxt = << reportOf(res) >>

\* C27 as stated: whenever the page shows a compare summary or offers a compare
\* report, they are the comparison of the CSV now displayed for the current mode
\* with some picked file.
OriginalC27 ==
    (step = 4 /\ (compareSummary # << >> \/ compareReportTxt # << >>)) =>
        \E other \in OtherCsvTexts : displays(compareCsv(displayedCsv, other))

\* The summary and the report on display always belong to one and the same
\* comparison of some generated CSV with a picked file.
PairedC27 ==
    \/ compareSummary = << >> /\ compareReportTxt = << >>
    \/ /\ compareSummary # << >> /\ compareReportTxt # << >>
       /\ compareReportTxt[1].summary = compareSummary[1]

---------------------------------------------------------------------------
(* Well-formedness of the configuration *)

knownFilter(f) == isFilter(f) /\ f.source \in { "sheet", "output" } /\ f.op # "bogus"

\* C28 as stated: after any edits and imports of templates that parse as JSON,
\* mode is one of the two mode names, every output and extra column spec has a
\* string header and a list of string ranges, and every filter has a known
\* source and operator.
OriginalC28 ==
    /\ mode \in { "roles", "assignments" }
    /\ \A i \in DOMAIN rolesColumns : isColumnSpec(rolesColumns[i])
    /\ \A i \in DOMAIN assignExtraColumns : isColumnSpec(assignExtraColumns[i])
    /\ \A i \in DOMAIN rolesFilters : knownFilter(rolesFilters[i])
    /\ \A i \in DOMAIN assignFilters : knownFilter(assignFilters[i])

\* The part that holds: the mode is always one of the two names, and the header,
\* range and mark texts are texts.
ModeNamedC28 == mode \in { "roles", "assignments" }

---------------------------------------------------------------------------
(* The upload page: files, the submit run and the schema editor *)

excelPageUnchanged ==
    /\ UNCHANGED << grid, call, pageVars >>
    /\ UNCHANGED rolesVars
    /\ UNCHANGED assignVars

\* An object handed to applySchema or typed as JSON: null, or an object with or
\* without an entities array (the names of the entities).
NullObj == [t |-> "null", hasEntities |-> FALSE, entities |-> << >>]
objOf(hasEntities, entities) == [t |-> "obj", hasEntities |-> hasEntities, entities |-> entities]

\* withStableIds(s): a schema with (s.entities || []) and every name given.
withStableIds(s) == [isNull |-> FALSE, entities |-> IF s.hasEntities THEN s.entities ELSE << >>]

\* JSON.stringify(schema, replacer, 2)
stringify(sch) == textOf("schema", sch.entities, TRUE, "")

\* schema ?? { name: "Connector", version: "1.0.0", entities: [] }
entitiesOrNone(sch) == IF sch.isNull THEN << >> ELSE sch.entities

RECURSIVE firstSeen(_, _)
firstSeen(names, seen) ==
    IF names = << >> THEN << >>
    ELSE IF Head(names) \in seen THEN firstSeen(Tail(names), seen)
    ELSE << Head(names) >> \o firstSeen(Tail(names), seen \cup { Head(names) })

RECURSIVE allEntities(_)
allEntities(docs) == IF docs = << >> THEN << >> ELSE Head(docs).entities \o allEntities(Tail(docs))

\* mergeSchemas(input): the entities of the schema documents, one per name, in
\* first-seen order.
mergeSchemas(docs) ==
    objOf(TRUE, firstSeen(allEntities(SelectSeq(docs, LAMBDA d : d.t = "obj" /\ d.hasEntities)), { }))

\* applySchema(obj) called from a closure whose selectedEntity is closureSelected
applySchema(obj, closureSelected) ==
    IF obj.t # "obj" THEN UNCHANGED << schema, schemaText, selectedEntity >>
    ELSE /\ schema' = withStableIds(obj)
         /\ schemaText' = stringify(withStableIds(obj))
         /\ selectedEntity' = IF closureSelected >= Len(withStableIds(obj).entities) THEN 0
                              ELSE selectedEntity

itemOf(file, gen) == [file |-> file, gen |-> gen, status |-> "pending", message |-> ""]
idOf(it) == << it.file, it.gen >>

positionOf(its, file) == CHOOSE i \in DOMAIN its : its[i].file = file

RECURSIVE picked(_, _)
picked(its, files) ==
    IF files = << >> THEN its
    ELSE IF \E i \in DOMAIN its : its[i].file = Head(files)
    THEN picked([its EXCEPT ![positionOf(its, Head(files))] =
                     itemOf(Head(files), its[positionOf(its, Head(files))].gen + 1)], Tail(files))
    ELSE picked(Append(its, itemOf(Head(files), 0)), Tail(files))

\* onPick(e): the picked files replace the items of the same name and size, each
\* with an id of its own, and are appended otherwise.
onPick(files) ==
    /\ items' = picked(items, files)
    /\ UNCHANGED << submitting, schemaText, schema, parseError, selectedEntity, submit >>
    /\ excelPageUnchanged

removeOne(id) ==
    /\ items' = SelectSeq(items, LAMBDA p : idOf(p) # id)
    /\ UNCHANGED << submitting, schemaText, schema, parseError, selectedEntity, submit >>
    /\ excelPageUnchanged

\* onClick of Clear
clearItems ==
    /\ items' = << >>
    /\ UNCHANGED << submitting, schemaText, schema, parseError, selectedEntity, submit >>
    /\ excelPageUnchanged

setStatus(its, id, status, message) ==
    [i \in DOMAIN its |-> IF idOf(its[i]) = id THEN [its[i] EXCEPT !.status = status, !.message = message]
                          ELSE its[i]]

setAll(its, status, message) ==
    [i \in DOMAIN its |-> [its[i] EXCEPT !.status = status, !.message = message]]

RECURSIVE setStatuses(_, _, _, _)
setStatuses(its, ids, status, message) ==
    IF ids = << >> THEN its
    ELSE setStatuses(setStatus(its, Head(ids), status, message), Tail(ids), status, message)

POLL_DELAYS_MS == << 30000, 15000, 15000, 10000, 15000 >>

\* submitAll, up to its first await: the call of detectUploadKind
submitAll ==
    /\ items # << >>
    /\ submitting' = TRUE
    /\ submit' = [pc |-> "detectUploadKind", items |-> [i \in DOMAIN items |-> idOf(items[i])],
                  selectedEntity |-> selectedEntity, pending |-> { }, polls |-> 0]
    /\ UNCHANGED << items, schemaText, schema, parseError, selectedEntity >>
    /\ excelPageUnchanged

\* detectUploadKind settles with a kind; the other kinds start one upload per file.
submitAllDetected(kind) ==
    /\ submit.pc = "detectUploadKind"
    /\ IF kind = "scim" THEN submit' = [submit EXCEPT !.pc = "readScimDocs"] /\ UNCHANGED items
       ELSE IF kind = "soap" THEN submit' = [submit EXCEPT !.pc = "texts"] /\ UNCHANGED items
       ELSE /\ submit' = [submit EXCEPT !.pc = "submitFile", !.pending = Range(submit.items)]
            /\ items' = setStatuses(items, submit.items, "uploading", "")
    /\ UNCHANGED << submitting, schemaText, schema, parseError, selectedEntity >>
    /\ excelPageUnchanged

\* readScimDocs settles: with documents, scimToSchema's object is applied and the
\* run ends; without, the run falls out of the if and ends.
submitAllScimRead(found, schemaObj) ==
    /\ submit.pc = "readScimDocs"
    /\ submit' = NoSubmit
    /\ IF found
       THEN /\ applySchema(schemaObj, submit.selectedEntity)
            /\ items' = setAll(items, "done", "SCIM parsed")
            /\ submitting' = FALSE
       ELSE UNCHANGED << schema, schemaText, selectedEntity, items, submitting >>
    /\ UNCHANGED parseError
    /\ excelPageUnchanged

\* The texts of the files are read and buildSchemaFromSoap's object is applied.
submitAllSoapRead(schemaObj) ==
    /\ submit.pc = "texts"
    /\ submit' = NoSubmit
    /\ applySchema(schemaObj, submit.selectedEntity)
    /\ items' = setAll(items, "done", "Completed")
    /\ submitting' = FALSE
    /\ UNCHANGED parseError
    /\ excelPageUnchanged

\* The upload of one file settles; once all have, polling starts.
submitAllFileSettled(id, outcome) ==
    /\ submit.pc = "submitFile"
    /\ id \in submit.pending
    /\ items' = IF outcome = "ok" THEN setStatus(items, id, "processing", "Queued")
                ELSE IF outcome = "status" THEN setStatus(items, id, "error", "500 Internal Server Error")
                ELSE setStatus(items, id, "error", "Network error")
    /\ submit' = [submit EXCEPT !.pending = submit.pending \ { id },
                                !.pc = IF submit.pending = { id } THEN "pollResultWithDelays"
                                       ELSE "submitFile"]
    /\ UNCHANGED << submitting, schemaText, schema, parseError, selectedEntity >>
    /\ excelPageUnchanged

\* The rest of the try block once pollResultWithDelays has returned out, and the
\* finally; parses is false when JSON.parse throws on the result text.
submitAllPolled(ok, parses, docs, error) ==
    /\ submit' = NoSubmit
    /\ submitting' = FALSE
    /\ IF ok /\ ~parses
       THEN UNCHANGED << schema, schemaText, selectedEntity, items >>
       ELSE IF ok
       THEN /\ applySchema(mergeSchemas(docs), submit.selectedEntity)
            /\ items' = setAll(items, "done", "Completed")
       ELSE /\ schemaText' = textOf("error", << >>, FALSE, error)
            /\ items' = setAll(items, "error", error)
            /\ UNCHANGED << schema, selectedEntity >>
    /\ UNCHANGED parseError
    /\ excelPageUnchanged

\* One round of pollResultWithDelays: the delay, the request and what it brings.
pollResultWithDelays(outcome, docs) ==
    /\ submit.pc = "pollResultWithDelays"
    /\ submit.polls < Len(POLL_DELAYS_MS)
    /\ IF outcome = "throws"
       THEN /\ submit' = NoSubmit
            /\ submitting' = FALSE
            /\ UNCHANGED << schema, schemaText, selectedEntity, items, parseError >>
            /\ excelPageUnchanged
       ELSE IF outcome = "status" THEN submitAllPolled(FALSE, FALSE, << >>, "503 Service Unavailable")
       ELSE IF outcome = "result" THEN submitAllPolled(TRUE, TRUE, docs, "")
       ELSE IF outcome = "text" THEN submitAllPolled(TRUE, FALSE, << >>, "")
       ELSE IF submit.polls + 1 = Len(POLL_DELAYS_MS)
       THEN submitAllPolled(FALSE, FALSE, << >>, "No result within polling window")
       ELSE /\ submit' = [submit EXCEPT !.polls = submit.polls + 1]
            /\ UNCHANGED << submitting, schema, schemaText, selectedEntity, items, parseError >>
            /\ excelPageUnchanged

EntityWord == << "E", "n", "t", "i", "t", "y" >>

RECURSIVE numbered(_, _, _)
numbered(base, existing, i) ==
    IF (base \o << " " >> \o digitsOf(i)) \in Range(existing) THEN numbered(base, existing, i + 1)
    ELSE base \o << " " >> \o digitsOf(i)

uniqueEntityName(base, existing) ==
    IF base \notin Range(existing) THEN base ELSE numbered(base, existing, 2)

addEntity ==
    /\ schema' = [isNull |-> FALSE,
                  entities |-> Append(entitiesOrNone(schema),
                                      uniqueEntityName(EntityWord, entitiesOrNone(schema)))]
    /\ schemaText' = stringify(schema')
    /\ selectedEntity' = Len(entitiesOrNone(schema))
    /\ UNCHANGED << items, submitting, parseError, submit >>
    /\ excelPageUnchanged

removeEntity(idx) ==
    /\ IF idx < 0 \/ idx >= Len(entitiesOrNone(schema))
       THEN UNCHANGED << schema, schemaText, selectedEntity >>
       ELSE /\ schema' = [isNull |-> FALSE,
                          entities |-> SubSeq(schema.entities, 1, idx)
                                         \o SubSeq(schema.entities, idx + 2, Len(schema.entities))]
            /\ schemaText' = stringify(schema')
            /\ selectedEntity' = IF Len(schema.entities) = 1 THEN 0
                                 ELSE Max(0, Min(idx, Len(schema.entities) - 2))
    /\ UNCHANGED << items, submitting, parseError, submit >>
    /\ excelPageUnchanged

\* onChange of the entity select
setSelectedEntity(i) ==
    /\ selectedEntity' = i
    /\ UNCHANGED << items, submitting, schemaText, schema, parseError, submit >>
    /\ excelPageUnchanged

newBlankSchema ==
    /\ schema' = [isNull |-> FALSE, entities |-> << >>]
    /\ schemaText' = stringify(schema')
    /\ selectedEntity' = 0
    /\ parseError' = "null"
    /\ UNCHANGED << items, submitting, submit >>
    /\ excelPageUnchanged

onSchemaTextChange(val) ==
    /\ IF val.t = "blank"
       THEN /\ schemaText' = val
            /\ schema' = NoSchema
            /\ parseError' = "null"
            /\ UNCHANGED selectedEntity
       ELSE IF val.t = "schema"
       THEN /\ schema' = withStableIds(objOf(TRUE, val.entities))
            /\ schemaText' = stringify(schema')
            /\ parseError' = "null"
            /\ selectedEntity' = IF selectedEntity >= Len(val.entities) THEN 0 ELSE selectedEntity
       ELSE /\ schemaText' = val
            /\ parseError' = IF val.t = "object" THEN "Missing entities[]" ELSE "Invalid JSON"
            /\ UNCHANGED << schema, selectedEntity >>
    /\ UNCHANGED << items, submitting, submit >>
    /\ excelPageUnchanged

---------------------------------------------------------------------------
(* The upload page driven through its controls *)

MaxEntities == 2
MaxPicks == 0

FileA == << "a", ".", "j", "s", "o", "n" >>
FileB == << "b", ".", "x", "m", "l" >>

PickedFiles == { << FileA >>, << FileA, FileB >> }

UserName == << "U", "s", "e", "r" >>
GroupName == << "G", "r", "o", "u", "p" >>

\* What the converters and the result route hand back: null, an object without
\* entities, and schemas of one and two entities.
SchemaObjects ==
    { NullObj, objOf(FALSE, << >>), objOf(TRUE, << UserName >>), objOf(TRUE, << UserName, GroupName >>) }

ResultDocs ==
    { << >>, << objOf(TRUE, << UserName >>) >>,
      << objOf(TRUE, << UserName >>), objOf(TRUE, << GroupName, UserName >>) >> }

TypedTexts ==
    { BlankText, textOf("invalid", << >>, FALSE, ""), textOf("object", << >>, FALSE, ""),
      textOf("schema", << >>, FALSE, ""), textOf("schema", << UserName >>, FALSE, "") }

InitUpload ==
    /\ grid = << >>
    /\ rolesConstructed
    /\ assignConstructed
    /\ call = NoCall
    /\ restConstructed

pickFiles ==
    \E files \in PickedFiles :
        /\ \A i \in DOMAIN items : items[i].file \in Range(files) => items[i].gen < MaxPicks
        /\ onPick(files)

clickRemove ==
    \E i \in DOMAIN items :
        /\ ~submitting /\ items[i].status # "uploading"
        /\ removeOne(idOf(items[i]))

clickClear == ~submitting /\ items # << >> /\ clearItems

clickSubmit == ~submitting /\ items # << >> /\ submitAll

detectSettles == \E kind \in { "scim", "soap", "other" } : submitAllDetected(kind)

scimDocsRead == \E found \in BOOLEAN, schemaObj \in SchemaObjects : submitAllScimRead(found, schemaObj)

soapTextsRead == \E schemaObj \in SchemaObjects : submitAllSoapRead(schemaObj)

uploadSettles ==
    \E id \in submit.pending, outcome \in { "ok", "status", "network" } : submitAllFileSettled(id, outcome)

pollSettles ==
    \E outcome \in { "throws", "status", "result", "text", "none" }, docs \in ResultDocs :
        pollResultWithDelays(outcome, docs)

clickAddEntity == Len(entitiesOrNone(schema)) < MaxEntities /\ addEntity

clickRemoveEntity == entitiesOrNone(schema) # << >> /\ removeEntity(selectedEntity)

pickEntity ==
    /\ entitiesOrNone(schema) # << >>
    /\ \E i \in 0 .. (Len(schema.entities) - 1) : setSelectedEntity(i)

clickNewBlankSchema == newBlankSchema

typeSchemaText == \E val \in TypedTexts : onSchemaTextChange(val)

NextUpload ==
    \/ pickFiles
    \/ clickRemove
    \/ clickClear
    \/ clickSubmit
    \/ detectSettles
    \/ scimDocsRead
    \/ soapTextsRead
    \/ uploadSettles
    \/ pollSettles
    \/ clickAddEntity
    \/ clickRemoveEntity
    \/ pickEntity
    \/ clickNewBlankSchema
    \/ typeSchemaText

SpecUpload == InitUpload /\ [][NextUpload]_vars

\* Every pending step of a submit run is taken in the end: the reads, requests
\* and timers it awaits settle.
SpecUploadFair ==
    /\ SpecUpload
    /\ WF_vars(detectSettles) /\ WF_vars(scimDocsRead) /\ WF_vars(soapTextsRead)
    /\ WF_vars(uploadSettles) /\ WF_vars(pollSettles)

running == submit.pc # "none"

\* C29 as stated, in the form a finite run shows: a submitAll run that has
\* finished has reset the submitting flag, whatever kind was detected and
\* whatever the reads, uploads and polls brought, and a run makes at most five
\* result requests.
OriginalC29 ==
    /\ ~running => ~submitting
    /\ submit.polls <= 5

\* C29 as a liveness statement: whenever the page is submitting, it later is not.
EventuallyC29 == submitting ~> ~submitting

\* The parts that hold: every run ends, and a run makes at most five requests.
EndsC29 == running ~> ~running

PollsC29 == submit.polls <= 5 /\ (submit.pc = "pollResultWithDelays" => submit.polls < 5)

\* C30 as stated: whenever the schema has an entity, selectedEntity is an index
\* into its entities.
OriginalC30 ==
    entitiesOrNone(schema) # << >> =>
        (0 <= selectedEntity /\ selectedEntity < Len(schema.entities))

\* With no submit run applying a schema the selection stays valid: it is what
\* the editor's own handlers keep.
EditorOnlyC30 ==
    [][(~running /\ OriginalC30) => OriginalC30']_vars

====
